---- MODULE Spec2Model ----
(***************************************************************************)
(* A model of tempest-today: the unit conversions and moon functions of    *)
(* core/utils.py, the collaborator calls of core/weather_service.py, the   *)
(* index view and get_current_weather of core/views.py, and the older      *)
(* revision of both in mysite/core/views.py.                               *)
(*                                                                         *)
(* Python values are tagged records:                                       *)
(*   None            [t |-> "none"]                                        *)
(*   a str           [t |-> "str", s |-> <TLA+ string>]                    *)
(*   an int / float  [t |-> "num", p |-> numerator, q |-> denominator]     *)
(*                   an exact rational in lowest terms, q > 0              *)
(*   float nan/inf   [t |-> "nan"], [t |-> "inf", neg |-> BOOLEAN]         *)
(*   a dict          [t |-> "dict", d |-> <function on its keys>]          *)
(*   a list          [t |-> "list", v |-> <sequence>]                      *)
(*   a bool          [t |-> "bool", b |-> BOOLEAN]                         *)
(* and an exception that leaves a function is the outcome                  *)
(*   [t |-> "raise", e |-> <exception class>].                             *)
(* Floats are computed as exact rationals; the input grids below are       *)
(* chosen so that every rounding tie that occurs (c*9/5+32 = n + 1/2) is   *)
(* exact in binary floating point as well.                                 *)
(***************************************************************************)
EXTENDS Integers, Sequences, FiniteSets, TLC

VARIABLES
    features,      \* upstream: the "features" list of the stations response
    obs,           \* upstream: the "properties" of the latest observation
    unit,          \* the requested display unit
    state_abbrev,  \* the state abbreviation index passes to get_current_weather
    result,        \* what the call of get_current_weather returned or raised
    pc,            \* "start" -> "core" / "mysite" (the revision that ran);
                   \* utility specification: "call" -> "mid" -> "done";
                   \* index: the position of the request thread
    fn,            \* the utility function under call (utility specification)
    args,          \* its arguments
    mid,           \* the intermediate value of a two-step composition
    ret,           \* its result
    \* the index view
    rev,           \* the revision that serves: "core" or "mysite"
    method,        \* request.method
    address,       \* the address, from request.POST.get("address") on
    show_random_location_message,
    lat,
    lon,
    location,      \* the three values get_location_coordinates returned
    cache_key,
    metadata,
    forecasts,
    active_alerts,
    astronomy,
    current_weather,
    tasks,         \* the four futures of the thread pool: state and outcome
    exc,           \* the exception that left the body of the with statement
    cache,         \* django.core.cache: key -> stored value
    calls,         \* the collaborator calls of this request: call -> what
                   \* the collaborator had to give
    response       \* what index returned (a render) or raised

index_vars ==
    <<rev, method, address, show_random_location_message, lat, lon, location,
      cache_key, metadata, forecasts, active_alerts, astronomy, current_weather,
      tasks, exc, cache, calls, response>>

vars ==
    <<features, obs, unit, state_abbrev, result, pc, fn, args, mid, ret,
      rev, method, address, show_random_location_message, lat, lon, location,
      cache_key, metadata, forecasts, active_alerts, astronomy, current_weather,
      tasks, exc, cache, calls, response>>

(***************************************************************************)
(* Bounds of the input grids.                                              *)
(***************************************************************************)
\* temperatures range over tenths of a degree in -MaxTempC .. MaxTempC
MaxTempC == 45
\* wind directions range over hundredths of a degree up to MaxDegrees ...
MaxDegrees == 365
\* ... and down to -MaxNegDegrees
MaxNegDegrees == 40
\* wind speeds range over tenths in 0 .. MaxWind
MaxWind == 30

(***************************************************************************)
(* Python values.                                                          *)
(***************************************************************************)
None == [t |-> "none"]

Str(s) == [t |-> "str", s |-> s]

Abs(n) == IF n < 0 THEN -n ELSE n

RECURSIVE Gcd(_, _)
Gcd(a, b) == IF b = 0 THEN a ELSE Gcd(b, a % b)

\* the number p/q (q > 0) in lowest terms
Rat(p, q) ==
    LET g == Gcd(Abs(p), q)
    IN  [t |-> "num", p |-> p \div g, q |-> q \div g]

Num(n) == Rat(n, 1)

Dict(d) == [t |-> "dict", d |-> d]

EmptyDict == Dict(<< >>)

Raise(e) == [t |-> "raise", e |-> e]

\* a Python tuple
Tuple(x) == [t |-> "tuple", v |-> x]

\* a Python list
List(x) == [t |-> "list", v |-> x]

Bool(b) == [t |-> "bool", b |-> b]

\* a name that has not been assigned
Unset == [t |-> "unset"]

IsNone(v) == v.t = "none"
IsNum(v) == v.t = "num"
IsStr(v) == v.t = "str"
IsDict(v) == v.t = "dict"
IsRaise(v) == v.t = "raise"

NA == Str("N/A")

\* Python truthiness (bool(v)) of a value
Truthy(v) ==
    CASE IsNone(v) -> FALSE
      [] IsStr(v)  -> v.s # ""
      [] IsNum(v)  -> v.p # 0
      [] IsDict(v) -> DOMAIN v.d # {}
      [] v.t = "list" -> v.v # << >>
      [] v.t = "bool" -> v.b
      [] OTHER     -> TRUE

\* round(p/q): Python 3 rounds to the nearest integer, ties to the even one
RoundHalfEven(p, q) ==
    LET f == p \div q
        r == p - f * q
    IN  IF 2 * r < q THEN f
        ELSE IF 2 * r > q THEN f + 1
        ELSE IF f % 2 = 0 THEN f ELSE f + 1

\* int(p/q): truncation toward zero
Trunc(p, q) == IF p >= 0 THEN p \div q ELSE -((-p) \div q)

\* round(v) of a Python value
py_round(v) ==
    CASE IsNum(v)       -> Num(RoundHalfEven(v.p, v.q))
      [] v.t = "nan"    -> Raise("ValueError")
      [] v.t = "inf"    -> Raise("OverflowError")
      [] OTHER          -> Raise("TypeError")

\* d.get(k, default) on a dict value
dict_get(v, k, default) == IF k \in DOMAIN v.d THEN v.d[k] ELSE default

\* sub in s, for two strings
Contains(s, sub) ==
    \E i \in 1..(Len(s) - Len(sub) + 1) : SubSeq(s, i, i + Len(sub) - 1) = sub

(***************************************************************************)
(* float(s) for a string: an optional sign followed by nan, inf, infinity  *)
(* or a decimal literal (digits with at most one point and at least one    *)
(* digit).  Literals with surrounding blanks, an exponent or underscores   *)
(* are outside the strings the model draws.                                *)
(***************************************************************************)
IsDigit(c) == c \in {"0", "1", "2", "3", "4", "5", "6", "7", "8", "9"}

DigitVal(c) == CHOOSE n \in 0..9 : SubSeq("0123456789", n + 1, n + 1) = c

AllDigits(s) == \A i \in 1..Len(s) : IsDigit(SubSeq(s, i, i))

RECURSIVE DigitsVal(_)
DigitsVal(s) ==
    IF Len(s) = 0 THEN 0
    ELSE 10 * DigitsVal(SubSeq(s, 1, Len(s) - 1)) + DigitVal(SubSeq(s, Len(s), Len(s)))

RECURSIVE Pow10(_)
Pow10(n) == IF n = 0 THEN 1 ELSE 10 * Pow10(n - 1)

parse_unsigned(u, neg) ==
    LET dots == {i \in 1..Len(u) : SubSeq(u, i, i) = "."}
        sgn  == IF neg THEN -1 ELSE 1
    IN  IF u \in {"nan", "NaN", "NAN"} THEN [t |-> "nan"]
        ELSE IF u \in {"inf", "Inf", "INF", "infinity", "Infinity", "INFINITY"}
            THEN [t |-> "inf", neg |-> neg]
        ELSE IF dots = {} THEN
            IF Len(u) > 0 /\ AllDigits(u) THEN Num(sgn * DigitsVal(u))
            ELSE Raise("ValueError")
        ELSE IF Cardinality(dots) = 1 THEN
            LET i == CHOOSE j \in dots : TRUE
                a == SubSeq(u, 1, i - 1)
                b == SubSeq(u, i + 1, Len(u))
            IN  IF AllDigits(a) /\ AllDigits(b) /\ Len(a) + Len(b) > 0
                THEN Rat(sgn * (DigitsVal(a) * Pow10(Len(b)) + DigitsVal(b)), Pow10(Len(b)))
                ELSE Raise("ValueError")
        ELSE Raise("ValueError")

parse_float(s) ==
    IF Len(s) > 0 /\ SubSeq(s, 1, 1) \in {"+", "-"}
    THEN parse_unsigned(SubSeq(s, 2, Len(s)), SubSeq(s, 1, 1) = "-")
    ELSE parse_unsigned(s, FALSE)

\* float(v) of a Python value
py_float(v) ==
    CASE IsNum(v) -> v
      [] IsStr(v) -> parse_float(v.s)
      [] OTHER    -> Raise("TypeError")

(***************************************************************************)
(* core/utils.py                                                           *)
(***************************************************************************)
\* (c * 9 / 5) + 32 for a number c
c_times_9_5_plus_32(c) == Rat(9 * c.p + 160 * c.q, 5 * c.q)

\* (f - 32) * 5 / 9 for a number f
f_minus_32_times_5_9(f) == Rat(5 * (f.p - 32 * f.q), 9 * f.q)

\* a str times 9 is a str, and dividing it by 5 is a TypeError, as is every
\* arithmetic on a dict
celsius_to_fahrenheit(temp_c) ==
    IF IsNone(temp_c) THEN NA
    ELSE IF IsNum(temp_c) THEN py_round(c_times_9_5_plus_32(temp_c))
    ELSE Raise("TypeError")

\* fahrenheit_to_celsius with int() in place of round()
fahrenheit_to_celsius_truncating(temp_f) ==
    IF IsNone(temp_f) \/ temp_f = NA THEN NA
    ELSE IF IsNum(temp_f)
        THEN LET x == f_minus_32_times_5_9(temp_f) IN Num(Trunc(x.p, x.q))
    ELSE Raise("TypeError")

fahrenheit_to_celsius(temp_f) ==
    IF IsNone(temp_f) \/ temp_f = NA THEN NA
    ELSE IF IsNum(temp_f) THEN py_round(f_minus_32_times_5_9(temp_f))
    ELSE Raise("TypeError")

\* convert_temperature without the test for equal units
convert_temperature_no_identity(temp, from_unit, to_unit) ==
    IF temp = NA \/ IsNone(temp) THEN NA
    ELSE LET f == py_float(temp)
         IN  IF IsRaise(f) THEN NA
             ELSE IF from_unit = "F" /\ to_unit = "C" THEN
                 (IF IsNum(f) THEN py_round(f_minus_32_times_5_9(f)) ELSE py_round(f))
             ELSE IF from_unit = "C" /\ to_unit = "F" THEN
                 (IF IsNum(f) THEN py_round(c_times_9_5_plus_32(f)) ELSE py_round(f))
             ELSE f

convert_temperature(temp, from_unit, to_unit) ==
    IF temp = NA \/ IsNone(temp) THEN NA
    ELSE IF from_unit = to_unit THEN temp
    ELSE LET f == py_float(temp)
         IN  IF IsRaise(f) THEN NA
             ELSE IF from_unit = "F" /\ to_unit = "C" THEN
                 (IF IsNum(f) THEN py_round(f_minus_32_times_5_9(f)) ELSE py_round(f))
             ELSE IF from_unit = "C" /\ to_unit = "F" THEN
                 (IF IsNum(f) THEN py_round(c_times_9_5_plus_32(f)) ELSE py_round(f))
             ELSE f

NoWindData == Str("no wind data available")

\* "m_s" in unit_code is a substring test on a str and a key test on a dict;
\* on None and on a number it is a TypeError
has_in(unit_code) == IsStr(unit_code) \/ IsDict(unit_code)

marker_in(marker, unit_code) ==
    IF IsStr(unit_code) THEN Contains(unit_code.s, marker)
    ELSE marker \in DOMAIN unit_code.d

\* round(raw_value * a / b) for the factor a/b; a str or dict times a float is
\* a TypeError
round_scaled(raw_value, a, b) ==
    IF IsNum(raw_value) THEN py_round(Rat(raw_value.p * a, raw_value.q * b))
    ELSE Raise("TypeError")

\* returns the tuple (speed_mph, label), or raises
convert_wind_speed(raw_value, unit_code) ==
    IF IsNone(raw_value) THEN Tuple(<<Str(""), NoWindData>>)
    ELSE IF ~has_in(unit_code) THEN Raise("TypeError")
    ELSE IF marker_in("m_s", unit_code) THEN
        LET speed_mph == round_scaled(raw_value, 223694, 100000)
        IN  IF IsRaise(speed_mph) THEN speed_mph ELSE Tuple(<<speed_mph, Str("mph")>>)
    ELSE IF marker_in("km_h", unit_code) THEN
        LET speed_mph == round_scaled(raw_value, 621371, 1000000)
        IN  IF IsRaise(speed_mph) THEN speed_mph ELSE Tuple(<<speed_mph, Str("mph")>>)
    ELSE Tuple(<<Str(""), NoWindData>>)

directions ==
    <<"N", "NNE", "NE", "ENE", "E", "ESE", "SE", "SSE",
      "S", "SSW", "SW", "WSW", "W", "WNW", "NW", "NNW">>

\* degrees_to_cardinal without the half-sector offset of 11.25
degrees_to_cardinal_no_offset(degrees) ==
    IF IsNone(degrees) THEN Str("")
    ELSE IF IsNum(degrees) THEN
        LET idx == Trunc(4 * degrees.p, 90 * degrees.q)
        IN  Str(directions[(idx % 16) + 1])
    ELSE Raise("TypeError")

\* int((degrees + 11.25) / 22.5) = int((4p + 45q) / (90q)) for degrees = p/q
degrees_to_cardinal(degrees) ==
    IF IsNone(degrees) THEN Str("")
    ELSE IF IsNum(degrees) THEN
        LET idx == Trunc(4 * degrees.p + 45 * degrees.q, 90 * degrees.q)
        IN  Str(directions[(idx % 16) + 1])
    ELSE Raise("TypeError")

(***************************************************************************)
(* core/weather_service.py                                                 *)
(***************************************************************************)
\* The stations response is modelled by its "features" list, each feature by
\* its "properties" dict.  Returns a tuple of two values.
get_nearest_station(feats) ==
    IF Len(feats) > 0
    THEN Tuple(<<dict_get(feats[1], "stationIdentifier", None),
                 dict_get(feats[1], "name", None)>>)
    ELSE Tuple(<<None, None>>)

\* The observation response is modelled by its "properties" dict.
get_current_observations(props) == props

(***************************************************************************)
(* core/views.py: get_current_weather                                      *)
(***************************************************************************)
\* a, b, ... = tup with n targets: a ValueError unless tup has n values
unpack(tup, n) == IF Len(tup.v) = n THEN tup ELSE Raise("ValueError")

\* o.get(key, {}).get("value"): None, a str and a number have no get
get_value(o, key) ==
    LET sub == dict_get(o, key, EmptyDict)
    IN  IF IsDict(sub) THEN dict_get(sub, "value", None) ELSE Raise("AttributeError")

\* f"{station_name}, {state_abbrev}" when both are truthy
station_display_of(station_name, abbrev) ==
    IF Truthy(station_name) /\ Truthy(abbrev)
    THEN Str(station_name.s \o ", " \o abbrev.s)
    ELSE station_name

\* lines 300-312
temp_display_of(o, u) ==
    LET temp_c == get_value(o, "temperature")
    IN  IF IsRaise(temp_c) THEN temp_c
        ELSE LET temp_f == celsius_to_fahrenheit(temp_c)
             IN  IF IsRaise(temp_f) THEN temp_f
                 ELSE IF temp_f = NA THEN None
                 ELSE IF u = "C" THEN
                     LET temp_display == convert_temperature(temp_f, "F", "C")
                     IN  IF temp_display = NA THEN None ELSE temp_display
                 ELSE temp_f

\* lines 314-317
description_of(o) ==
    LET description == dict_get(o, "textDescription", None)
    IN  IF ~Truthy(description) \/ description = Str("Unknown") THEN None
        ELSE description

\* lines 319-323: the tuple (wind_speed_mph, wind_label), or raises
wind_of(o) ==
    LET wind_data == dict_get(o, "windSpeed", EmptyDict)
    IN  IF ~IsDict(wind_data) THEN Raise("AttributeError")
        ELSE convert_wind_speed(dict_get(wind_data, "value", None),
                                dict_get(wind_data, "unitCode", Str("")))

\* lines 325-327
wind_direction_of(o) ==
    LET wind_direction_deg == get_value(o, "windDirection")
    IN  IF IsRaise(wind_direction_deg) THEN wind_direction_deg
        ELSE degrees_to_cardinal(wind_direction_deg)

\* lines 331-337: round() inside try/except (TypeError, ValueError)
humidity_of(o) ==
    LET humidity == get_value(o, "relativeHumidity")
    IN  IF IsRaise(humidity) \/ IsNone(humidity) THEN humidity
        ELSE LET r == py_round(humidity)
             IN  IF IsRaise(r) /\ r.e \in {"TypeError", "ValueError"} THEN None ELSE r

\* lines 339-383: the one pattern heat index, wind chill and the 24-hour
\* maximum and minimum share; the conversion is inside
\* try/except (TypeError, ValueError)
celsius_field_of(o, key, u) ==
    LET c == get_value(o, key)
    IN  IF IsRaise(c) THEN c
        ELSE IF IsNone(c) THEN None
        ELSE LET f == celsius_to_fahrenheit(c)
             IN  IF IsRaise(f) THEN None
                 ELSE IF f = NA THEN None
                 ELSE IF u = "F" THEN py_round(f) ELSE py_round(c)

\* round(mm / 25.4, 2) = round(100 * 5p / (127q)) / 100 for mm = p/q
mm_to_inches(mm) == Rat(RoundHalfEven(500 * mm.p, 127 * mm.q), 100)

\* lines 385-395: the tuple (precip_1h_inches, precip_1h_mm), or raises;
\* comparing a str or a dict with 0 is a TypeError, which is caught
precip_of(o) ==
    LET precip_1h_mm == get_value(o, "precipitationLastHour")
    IN  IF IsRaise(precip_1h_mm) THEN precip_1h_mm
        ELSE IF IsNone(precip_1h_mm) THEN Tuple(<<None, None>>)
        ELSE IF ~IsNum(precip_1h_mm) THEN Tuple(<<None, None>>)
        ELSE IF precip_1h_mm.p > 0 THEN Tuple(<<mm_to_inches(precip_1h_mm), precip_1h_mm>>)
        ELSE Tuple(<<Num(0), precip_1h_mm>>)

\* the first exception of a sequence of outcomes, in the order of evaluation
first_raise(outs) ==
    LET bad == {i \in 1..Len(outs) : IsRaise(outs[i])}
    IN  outs[CHOOSE i \in bad : \A j \in bad : i <= j]

any_raise(outs) == \E i \in 1..Len(outs) : IsRaise(outs[i])

or_none(cond, v) == IF cond THEN v ELSE None

\* lines 280-295
no_station_record(station_display) ==
    Dict([temp |-> None, description |-> None, station |-> None,
          station_full_name |-> station_display,
          wind_speed_mph |-> None, wind_label |-> None,
          current_wind_direction |-> None, humidity |-> None,
          heat_index |-> None, wind_chill |-> None,
          max_temp_24h |-> None, min_temp_24h |-> None,
          precip_1h |-> None, precip_1h_mm |-> None])

\* lines 297-414: the body that runs once a station is known
current_weather_of(station_id, station_display, o, u) ==
    LET temp_display   == temp_display_of(o, u)
        description    == description_of(o)
        wind           == wind_of(o)
        wind_direction == wind_direction_of(o)
        humidity       == humidity_of(o)
        heat_index     == celsius_field_of(o, "heatIndex", u)
        wind_chill     == celsius_field_of(o, "windChill", u)
        max_temp_24h   == celsius_field_of(o, "maxTemperatureLast24Hours", u)
        min_temp_24h   == celsius_field_of(o, "minTemperatureLast24Hours", u)
        precip         == precip_of(o)
        outs == <<temp_display, description, wind, wind_direction, humidity,
                  heat_index, wind_chill, max_temp_24h, min_temp_24h, precip>>
    IN  IF any_raise(outs) THEN first_raise(outs)
        ELSE Dict([temp |-> temp_display,
                   description |-> description,
                   station |-> station_id,
                   station_full_name |-> station_display,
                   wind_speed_mph |-> or_none(Truthy(wind.v[1]), wind.v[1]),
                   wind_label |-> or_none(Truthy(wind.v[2]) /\ wind.v[2] # NoWindData,
                                          wind.v[2]),
                   current_wind_direction |-> or_none(Truthy(wind_direction), wind_direction),
                   humidity |-> humidity,
                   heat_index |-> heat_index,
                   wind_chill |-> wind_chill,
                   max_temp_24h |-> max_temp_24h,
                   min_temp_24h |-> min_temp_24h,
                   precip_1h |-> precip.v[1],
                   precip_1h_mm |-> precip.v[2]])

\* lines 256-414.  Line 269 unpacks the result of get_nearest_station into
\* three names.
get_current_weather(feats, o, u, abbrev) ==
    LET tup == unpack(get_nearest_station(feats), 3)
    IN  IF IsRaise(tup) THEN tup
        ELSE LET station_id      == tup.v[1]
                 station_name    == tup.v[2]
                 station_display == station_display_of(station_name, abbrev)
             IN  IF ~Truthy(station_id) THEN no_station_record(station_display)
                 ELSE current_weather_of(station_id, station_display,
                                         get_current_observations(o), u)

(***************************************************************************)
(* mysite/core/views.py: get_current_weather, the older revision           *)
(***************************************************************************)
\* lines 141-149
mysite_no_station_record(station_name) ==
    Dict([temp |-> None, description |-> None, station |-> None,
          station_full_name |-> station_name,
          wind_speed_mph |-> None, wind_label |-> None,
          current_wind_direction |-> None])

\* lines 124-192.  Line 136 unpacks the result into two names.
mysite_get_current_weather(feats, o, u) ==
    LET tup == unpack(get_nearest_station(feats), 2)
    IN  IF IsRaise(tup) THEN tup
        ELSE LET station_id   == tup.v[1]
                 station_name == tup.v[2]
             IN  IF ~Truthy(station_id) THEN mysite_no_station_record(station_name)
                 ELSE LET temp_display   == temp_display_of(o, u)
                          description    == description_of(o)
                          wind           == wind_of(o)
                          wind_direction == wind_direction_of(o)
                          outs == <<temp_display, description, wind, wind_direction>>
                      IN  IF any_raise(outs) THEN first_raise(outs)
                          ELSE Dict([temp |-> temp_display,
                                     description |-> description,
                                     station |-> station_id,
                                     station_full_name |-> station_name,
                                     wind_speed_mph |-> or_none(Truthy(wind.v[1]), wind.v[1]),
                                     wind_label |->
                                         or_none(Truthy(wind.v[2]) /\ wind.v[2] # NoWindData,
                                                 wind.v[2]),
                                     current_wind_direction |->
                                         or_none(Truthy(wind_direction), wind_direction)])

(***************************************************************************)
(* The upstream data get_current_weather is run on.                        *)
(***************************************************************************)
\* a key that is not in the dict
Missing == [t |-> "missing"]

\* the dict of the keys of raw whose value is not Missing
make_dict(raw) == Dict([k \in {x \in DOMAIN raw : raw[x] # Missing} |-> raw[k]])

\* {"value": v}
Meas(v) == Dict([k \in {"value"} |-> v])

\* {"value": v, "unitCode": u}, either key possibly missing
MeasUnit(v, u) == make_dict([value |-> v, unitCode |-> u])

\* what a measurement key can hold besides a well-formed number: no key, null,
\* a dict without "value", a null value, a non-numeric value
Malformed == {Missing, None, EmptyDict, Meas(None), Meas(Str("abc"))}

TemperatureNums == {Num(20), Num(0), Num(-18), Num(-40), Rat(5, 2), Rat(206, 10)}
DirectionNums == {Num(0), Num(90), Num(360), Rat(34875, 100), Rat(1126, 100)}
HumidityNums == {Num(0), Num(50), Rat(505, 10), Rat(6349, 100)}
FeelsNums == {Num(25), Num(0), Rat(-5, 2), Rat(305, 10)}
PrecipNums == {Num(0), Rat(254, 10), Num(-1), Rat(1, 10), Rat(25, 10)}
WindNums == {Num(0), Num(5), Num(10), Rat(36, 10)}
WindCodes == {Str("wmoUnit:km_h-1"), Str("wmoUnit:m_s-1"), Str(""), Str("wmoUnit:kn"),
              None, Missing}

ObsKeys ==
    {"temperature", "textDescription", "windSpeed", "windDirection",
     "relativeHumidity", "heatIndex", "windChill", "maxTemperatureLast24Hours",
     "minTemperatureLast24Hours", "precipitationLastHour"}

Variants(key) ==
    CASE key = "temperature"    -> Malformed \cup {Meas(n) : n \in TemperatureNums}
      [] key = "textDescription" ->
             {Missing, None, Str(""), Str("Unknown"), Str("Clear")}
      [] key = "windSpeed"      ->
             {Missing, None, EmptyDict}
             \cup {MeasUnit(v, u) : v \in WindNums \cup {None, Str("abc")}, u \in WindCodes}
      [] key = "windDirection"  -> Malformed \cup {Meas(n) : n \in DirectionNums}
      [] key = "relativeHumidity" -> Malformed \cup {Meas(n) : n \in HumidityNums}
      [] key = "precipitationLastHour" -> Malformed \cup {Meas(n) : n \in PrecipNums}
      [] OTHER                  -> Malformed \cup {Meas(n) : n \in FeelsNums}

\* the observation of the end-to-end scenario, every measurement well-formed
BaseRaw ==
    [k \in ObsKeys |->
        CASE k = "temperature"    -> Meas(Num(20))
          [] k = "textDescription" -> Str("Clear")
          [] k = "windSpeed"      -> MeasUnit(Num(5), Str("wmoUnit:km_h-1"))
          [] k = "windDirection"  -> Meas(Num(90))
          [] k = "relativeHumidity" -> Meas(Num(50))
          [] k = "precipitationLastHour" -> Meas(Rat(254, 10))
          [] OTHER                -> Meas(Num(25))]

\* the base observation with at most two keys replaced by any of their variants
ObsSet ==
    {make_dict([BaseRaw EXCEPT ![k1] = v1, ![k2] = v2]) :
        <<k1, v1, k2, v2>> \in
            UNION {UNION {{k1} \X Variants(k1) \X {k2} \X Variants(k2) : k2 \in ObsKeys}
                   : k1 \in ObsKeys}}

Station(id, name) == make_dict([stationIdentifier |-> id, name |-> name])

\* no station; a station; a feature with a name and no identifier
FeatureSets ==
    {<< >>,
     <<Station(Str("KSFO"), Str("San Francisco Intl"))>>,
     <<Station(Missing, Str("San Francisco Intl"))>>}

Units == {"F", "C"}

\* the four calls index hands to the thread pool, in the order of submission
TaskNames == <<"forecast", "alerts", "astronomy", "current_weather">>

\* the variables of the index view before a request has arrived
NoRequest ==
    /\ rev = "core"
    /\ method = "GET"
    /\ address = Unset
    /\ show_random_location_message = FALSE
    /\ lat = Unset
    /\ lon = Unset
    /\ location = Unset
    /\ cache_key = Unset
    /\ metadata = Unset
    /\ forecasts = Unset
    /\ active_alerts = Unset
    /\ astronomy = Unset
    /\ current_weather = Unset
    /\ tasks = [n \in 1..Len(TaskNames) |-> [st |-> "new", out |-> Unset]]
    /\ exc = None
    /\ cache = << >>
    /\ calls = << >>
    /\ response = Unset

(***************************************************************************)
(* Spec: one call of get_current_weather, in either revision, on upstream  *)
(* data drawn from the sets above.                                         *)
(***************************************************************************)
Init ==
    /\ features \in FeatureSets
    /\ obs \in ObsSet
    /\ unit \in Units
    /\ state_abbrev \in {None, Str("CA")}
    /\ result = None
    /\ pc = "start"
    /\ fn = "none"
    /\ args = << >>
    /\ mid = None
    /\ ret = None
    /\ NoRequest

\* core/views.py
GetCurrentWeather ==
    /\ pc = "start"
    /\ result' = get_current_weather(features, obs, unit, state_abbrev)
    /\ pc' = "core"
    /\ UNCHANGED <<features, obs, unit, state_abbrev, fn, args, mid, ret>>
    /\ UNCHANGED index_vars

\* mysite/core/views.py, which takes no state abbreviation
GetCurrentWeatherMysite ==
    /\ pc = "start"
    /\ IsNone(state_abbrev)
    /\ result' = mysite_get_current_weather(features, obs, unit)
    /\ pc' = "mysite"
    /\ UNCHANGED <<features, obs, unit, state_abbrev, fn, args, mid, ret>>
    /\ UNCHANGED index_vars

Next == GetCurrentWeather \/ GetCurrentWeatherMysite

Spec == Init /\ [][Next]_vars

(***************************************************************************)
(* What the claims about get_current_weather speak of.                     *)
(***************************************************************************)
StationId == get_nearest_station(features).v[1]

HasStation == Truthy(StationId)

\* the entry of the observation under key, Missing when there is none
RawOf(key) == dict_get(obs, key, Missing)

\* its "value", Missing when the entry is no dict or has none
ValueOf(key) ==
    IF IsDict(RawOf(key)) THEN dict_get(RawOf(key), "value", Missing) ELSE Missing

\* the entry is absent, or a dict whose value is absent, null or a number
\* (and, for the wind speed, whose unit code is absent or a string)
WellFormedOrAbsent(key) ==
    \/ RawOf(key) = Missing
    \/ /\ IsDict(RawOf(key))
       /\ ValueOf(key) = Missing \/ IsNone(ValueOf(key)) \/ IsNum(ValueOf(key))
       /\ key = "windSpeed" =>
              LET u == dict_get(RawOf(key), "unitCode", Missing)
              IN  u = Missing \/ IsStr(u)

\* every measurement other than those of keys is well-formed or absent
OthersClean(keys) ==
    \A k \in ObsKeys \ (keys \cup {"textDescription"}) : WellFormedOrAbsent(k)

WeatherFields ==
    {"temp", "description", "station", "wind_speed_mph", "wind_label",
     "current_wind_direction", "humidity", "heat_index", "wind_chill",
     "max_temp_24h", "min_temp_24h", "precip_1h", "precip_1h_mm"}

\* the fields of the record that a key of the observation decides
FieldsOf(key) ==
    CASE key = "temperature"      -> {"temp"}
      [] key = "textDescription"  -> {"description"}
      [] key = "windSpeed"        -> {"wind_speed_mph", "wind_label"}
      [] key = "windDirection"    -> {"current_wind_direction"}
      [] key = "relativeHumidity" -> {"humidity"}
      [] key = "heatIndex"        -> {"heat_index"}
      [] key = "windChill"        -> {"wind_chill"}
      [] key = "maxTemperatureLast24Hours" -> {"max_temp_24h"}
      [] key = "minTemperatureLast24Hours" -> {"min_temp_24h"}
      [] OTHER                    -> {"precip_1h", "precip_1h_mm"}

\* what the revision that ran returns on observation o
ResultOn(o) ==
    IF pc = "core" THEN get_current_weather(features, o, unit, state_abbrev)
    ELSE mysite_get_current_weather(features, o, unit)

\* round(c * 9 / 5 + 32) and round((f - 32) * 5 / 9), written out
RoundedF(c) == RoundHalfEven(9 * c.p + 160 * c.q, 5 * c.q)
RoundedCofF(f) == RoundHalfEven(5 * (f - 32), 9)

(***************************************************************************)
(* C1.  When no station is found, get_current_weather raises nothing and   *)
(* returns a record whose weather fields are all absent.                   *)
(* Fails in core/views.py: line 269 unpacks the two values that            *)
(* get_nearest_station returns into three names.                           *)
(***************************************************************************)
C1_NoStationAllAbsent ==
    (pc = "core" /\ ~HasStation) =>
        /\ IsDict(result)
        /\ \A f \in WeatherFields : result.d[f] = None

\* C1 restricted to the older revision, whose line 136 unpacks two values:
\* there the no-station record has every weather field absent
C1_MysiteNoStationAllAbsent ==
    (pc = "mysite" /\ ~HasStation) =>
        /\ IsDict(result)
        /\ \A f \in DOMAIN result.d \ {"station_full_name"} : result.d[f] = None

C1_MysiteWitness ==
    /\ pc = "mysite"
    /\ ~HasStation
    /\ IsDict(result)
    /\ result.d["station_full_name"] # None

(***************************************************************************)
(* C2.  Each field is normalized independently: when one measurement of    *)
(* an otherwise well-formed observation is missing, null or malformed, no  *)
(* exception leaves get_current_weather, the fields of that measurement    *)
(* are absent and every other field is what it is for the well-formed      *)
(* observation.                                                            *)
(***************************************************************************)
BadVariants(key) ==
    IF key = "windSpeed"
    THEN {Missing, None, EmptyDict, MeasUnit(None, Str("wmoUnit:km_h-1")),
          MeasUnit(Str("abc"), Str("wmoUnit:km_h-1")), MeasUnit(Num(5), None)}
    ELSE IF key = "textDescription" THEN {Missing, None, Str(""), Str("Unknown")}
    ELSE Malformed

OneBad(key) == \E m \in BadVariants(key) : obs = make_dict([BaseRaw EXCEPT ![key] = m])

C2_FieldsIndependent ==
    \A k \in ObsKeys :
        (pc # "start" /\ HasStation /\ OneBad(k)) =>
            /\ IsDict(result)
            /\ \A f \in FieldsOf(k) \cap DOMAIN result.d : result.d[f] = None
            /\ \A f \in DOMAIN result.d \ FieldsOf(k) :
                   result.d[f] = ResultOn(make_dict(BaseRaw)).d[f]

\* C2's own defect, apart from C1's: in the older revision, which gets past
\* the station lookup, a malformed measurement still raises
C2_MysiteNoException ==
    (pc = "mysite" /\ HasStation) => IsDict(result)

(***************************************************************************)
(* C3.  In every record get_current_weather returns for a station, a       *)
(* numeric field whose upstream value is a legitimate zero is present with *)
(* value 0, and a field is absent only when its upstream value was         *)
(* unavailable.                                                            *)
(***************************************************************************)
KnownWindUnit ==
    LET u == dict_get(RawOf("windSpeed"), "unitCode", Missing)
    IN  u \in {Str("wmoUnit:km_h-1"), Str("wmoUnit:m_s-1")}

C3_ZeroIsPresent ==
    (pc # "start" /\ HasStation /\ IsDict(result)) =>
        /\ (ValueOf("windSpeed") = Num(0) /\ KnownWindUnit) =>
               result.d["wind_speed_mph"] = Num(0)
        /\ (IsNum(ValueOf("temperature")) /\ unit = "F"
                /\ RoundedF(ValueOf("temperature")) = 0) =>
               result.d["temp"] = Num(0)
        /\ (pc = "core" /\ ValueOf("relativeHumidity") = Num(0)) =>
               result.d["humidity"] = Num(0)
        /\ (pc = "core" /\ ValueOf("precipitationLastHour") = Num(0)) =>
               result.d["precip_1h"] = Num(0) /\ result.d["precip_1h_mm"] = Num(0)

(***************************************************************************)
(* C4.  precipitationLastHour: a negative or non-numeric value gives       *)
(* absent for precip_1h and precip_1h_mm; 0 mm gives precip_1h = 0; a      *)
(* positive v gives precip_1h = round(v / 25.4, 2).                        *)
(***************************************************************************)
PrecipAsClaimed(r, v) ==
    IF IsStr(v) \/ (IsNum(v) /\ v.p < 0)
        THEN r.d["precip_1h"] = None /\ r.d["precip_1h_mm"] = None
    ELSE IF v = Num(0) THEN r.d["precip_1h"] = Num(0)
    ELSE IF IsNum(v)
        THEN r.d["precip_1h"] = Rat(RoundHalfEven(500 * v.p, 127 * v.q), 100)
    ELSE TRUE

C4_Precipitation ==
    (pc = "core" /\ HasStation /\ OthersClean({"precipitationLastHour"})
       /\ IsDict(RawOf("precipitationLastHour"))) =>
        /\ IsDict(result)
        /\ PrecipAsClaimed(result, ValueOf("precipitationLastHour"))

(***************************************************************************)
(* C5.  The temperature follows the two-step path: f = round(c*9/5+32);    *)
(* temp = f for unit F and round((f-32)*5/9) for unit C, which is within 1 *)
(* of c; an unavailable raw value gives temp absent.                       *)
(***************************************************************************)
TempAsClaimed(r, c) ==
    IF IsNum(c) THEN
        LET f == RoundedF(c)
        IN  IF unit = "F" THEN r.d["temp"] = Num(f)
            ELSE /\ r.d["temp"] = Num(RoundedCofF(f))
                 /\ Abs(RoundedCofF(f) * c.q - c.p) <= c.q
    ELSE r.d["temp"] = None

C5_TemperatureTwoStep ==
    (pc # "start" /\ HasStation /\ OthersClean({"temperature"})
       /\ WellFormedOrAbsent("temperature")) =>
        /\ IsDict(result)
        /\ TempAsClaimed(result, ValueOf("temperature"))

\* C5 restricted to the older revision, where the function gets past the
\* station lookup: the temperature path is as claimed
C5_MysiteTemperatureTwoStep ==
    (pc = "mysite" /\ HasStation /\ OthersClean({"temperature"})
       /\ WellFormedOrAbsent("temperature")) =>
        /\ IsDict(result)
        /\ TempAsClaimed(result, ValueOf("temperature"))

C5_MysiteWitness ==
    /\ pc = "mysite"
    /\ HasStation
    /\ unit = "C"
    /\ ValueOf("temperature") = Rat(5, 2)
    /\ IsDict(result)
    /\ result.d["temp"] = Num(2)

(***************************************************************************)
(* C6.  Heat index, wind chill and the 24-hour maximum and minimum: a      *)
(* present Celsius value c displays as round(c*9/5+32) for unit F and as   *)
(* round(c) otherwise; an absent value gives an absent field.              *)
(***************************************************************************)
CelsiusKeys ==
    {"heatIndex", "windChill", "maxTemperatureLast24Hours", "minTemperatureLast24Hours"}

CelsiusFieldAsClaimed(r, key) ==
    LET c == ValueOf(key)
        f == CHOOSE x \in FieldsOf(key) : TRUE
    IN  IF IsNum(c) THEN
            IF unit = "F" THEN r.d[f] = Num(RoundedF(c))
            ELSE r.d[f] = Num(RoundHalfEven(c.p, c.q))
        ELSE r.d[f] = None

C6_CelsiusFields ==
    (pc = "core" /\ HasStation /\ OthersClean({})) =>
        /\ IsDict(result)
        /\ \A k \in CelsiusKeys : CelsiusFieldAsClaimed(result, k)

\* C4's own defect, apart from C1's: lines 297-414 run on a station give a
\* negative precipitation as 0 inches and keep the negative millimeters
C4_BodyPrecipitation ==
    (pc = "core" /\ HasStation /\ OthersClean({"precipitationLastHour"})
       /\ IsDict(RawOf("precipitationLastHour"))) =>
        LET r == current_weather_of(StationId, StationId, obs, unit)
        IN  IsDict(r) /\ PrecipAsClaimed(r, ValueOf("precipitationLastHour"))

\* ... and that is its only defect: the other cases of C4 hold of lines 297-414
C4_BodyPrecipitationNonNegative ==
    (pc = "core" /\ HasStation /\ OthersClean({"precipitationLastHour"})
       /\ IsDict(RawOf("precipitationLastHour"))) =>
        LET r == current_weather_of(StationId, StationId, obs, unit)
            v == ValueOf("precipitationLastHour")
        IN  /\ IsDict(r)
            /\ (IsNum(v) /\ v.p < 0) =>
                   r.d["precip_1h"] = Num(0) /\ r.d["precip_1h_mm"] = v
            /\ ~(IsNum(v) /\ v.p < 0) => PrecipAsClaimed(r, v)

\* C6 holds of lines 297-414 run on a station
C6_BodyCelsiusFields ==
    (pc = "core" /\ HasStation /\ OthersClean({})) =>
        LET r == current_weather_of(StationId, StationId, obs, unit)
        IN  IsDict(r) /\ \A k \in CelsiusKeys : CelsiusFieldAsClaimed(r, k)

(***************************************************************************)
(* SpecUtils: one call of a function of core/utils.py on arguments drawn   *)
(* from bounded grids.  The round trip applies celsius_to_fahrenheit and   *)
(* then fahrenheit_to_celsius to its result.                               *)
(***************************************************************************)
CelsiusGrid == {Rat(n, 10) : n \in (-10 * MaxTempC)..(10 * MaxTempC)}

DegreesGrid == {Rat(n, 100) : n \in (-100 * MaxNegDegrees)..(100 * MaxDegrees)}

WindGrid == {Rat(n, 10) : n \in 0..(10 * MaxWind)}

TemperatureInputs ==
    {None, NA, Str(""), Str("abc"), Str("68"), Str("20.5"), Str("-.5"), Str("nan"),
     EmptyDict}
    \cup {Rat(n, 2) : n \in (-2 * MaxTempC)..(2 * MaxTempC)}

UnitCodes ==
    {Str("wmoUnit:m_s-1"), Str("wmoUnit:km_h-1"), Str("m_s"), Str("km_h"), Str(""),
     Str("wmoUnit:kn"), Str("wmoUnit:mi_h-1"), Str("wmoUnit:mm_s-1"), Str("m_"),
     None}

UtilCalls ==
    ({"round_trip"} \X {<<c>> : c \in CelsiusGrid})
    \cup ({"convert_temperature"}
              \X (TemperatureInputs \X Units \X Units))
    \cup ({"convert_wind_speed"}
              \X ((WindGrid \cup {None}) \X UnitCodes))
    \cup ({"degrees_to_cardinal"} \X {<<d>> : d \in DegreesGrid \cup {None}})

InitUtils ==
    /\ \E call \in UtilCalls : fn = call[1] /\ args = call[2]
    /\ pc = "call"
    /\ mid = None
    /\ ret = None
    /\ features = << >>
    /\ obs = EmptyDict
    /\ unit = "F"
    /\ state_abbrev = None
    /\ result = None
    /\ NoRequest

CallCelsiusToFahrenheit ==
    /\ pc = "call"
    /\ fn = "round_trip"
    /\ mid' = celsius_to_fahrenheit(args[1])
    /\ pc' = "mid"
    /\ UNCHANGED <<features, obs, unit, state_abbrev, result, fn, args, ret>>
    /\ UNCHANGED index_vars

CallFahrenheitToCelsius ==
    /\ pc = "mid"
    /\ fn = "round_trip"
    /\ ret' = fahrenheit_to_celsius(mid)
    /\ pc' = "done"
    /\ UNCHANGED <<features, obs, unit, state_abbrev, result, fn, args, mid>>
    /\ UNCHANGED index_vars

CallConvertTemperature ==
    /\ pc = "call"
    /\ fn = "convert_temperature"
    /\ ret' = convert_temperature(args[1], args[2], args[3])
    /\ pc' = "done"
    /\ UNCHANGED <<features, obs, unit, state_abbrev, result, fn, args, mid>>
    /\ UNCHANGED index_vars

CallConvertWindSpeed ==
    /\ pc = "call"
    /\ fn = "convert_wind_speed"
    /\ ret' = convert_wind_speed(args[1], args[2])
    /\ pc' = "done"
    /\ UNCHANGED <<features, obs, unit, state_abbrev, result, fn, args, mid>>
    /\ UNCHANGED index_vars

CallDegreesToCardinal ==
    /\ pc = "call"
    /\ fn = "degrees_to_cardinal"
    /\ ret' = degrees_to_cardinal(args[1])
    /\ pc' = "done"
    /\ UNCHANGED <<features, obs, unit, state_abbrev, result, fn, args, mid>>
    /\ UNCHANGED index_vars

NextUtils ==
    \/ CallCelsiusToFahrenheit
    \/ CallFahrenheitToCelsius
    \/ CallConvertTemperature
    \/ CallConvertWindSpeed
    \/ CallDegreesToCardinal

SpecUtils == InitUtils /\ [][NextUtils]_vars

Returned(f) == pc = "done" /\ fn = f

(***************************************************************************)
(* C7.  For every valid Celsius value c,                                   *)
(* fahrenheit_to_celsius(celsius_to_fahrenheit(c)) is one of c-1, c, c+1.  *)
(* As stated it fails for a c that is no whole number: the result is a     *)
(* whole number.                                                           *)
(***************************************************************************)
C7_RoundTripOneOfThree ==
    Returned("round_trip") =>
        LET c == args[1]
        IN  ret \in {Rat(c.p - c.q, c.q), c, Rat(c.p + c.q, c.q)}

\* C7 as amended: the round trip of c is a whole number within 1 of c, and it
\* is c itself (so one of c-1, c, c+1) when c is a whole number
C7_RoundTripWithinOne ==
    Returned("round_trip") =>
        LET c == args[1]
        IN  /\ IsNum(ret)
            /\ ret.q = 1
            /\ Abs(ret.p * c.q - c.p) <= c.q
            /\ c.q = 1 => ret = c

\* 20.5 C -> 69 F -> 21 C
C7_Witness ==
    /\ Returned("round_trip")
    /\ args[1] = Rat(205, 10)
    /\ mid = Num(69)
    /\ ret = Num(21)

(***************************************************************************)
(* C8.  convert_temperature(x, 'F', 'F') returns x unchanged for every x,  *)
(* each absent marker included.  As stated it fails for None, which comes  *)
(* back as "N/A".                                                          *)
(***************************************************************************)
C8_IdentityFF ==
    (Returned("convert_temperature") /\ args[2] = "F" /\ args[3] = "F") =>
        ret = args[1]

\* C8 as amended: convert_temperature(x, 'F', 'F') returns x unchanged for
\* every x other than None, the "N/A" marker included, and returns "N/A" for
\* None
C8_IdentityFFButNone ==
    (Returned("convert_temperature") /\ args[2] = "F" /\ args[3] = "F") =>
        ret = IF IsNone(args[1]) THEN NA ELSE args[1]

C8_Witness ==
    /\ Returned("convert_temperature")
    /\ args = <<None, "F", "F">>
    /\ ret = NA

(***************************************************************************)
(* C9.  convert_wind_speed(raw, code): an absent raw gives (absent, "no    *)
(* wind data available") for any code; a code containing the m/s marker    *)
(* gives (round(raw * 2.23694), "mph"); a code containing the km/h marker  *)
(* gives (round(raw * 0.621371), "mph"); every other code, empty or        *)
(* missing included, gives (absent, "no wind data available").             *)
(* Fails for a missing (None) code with a raw value: "m_s" in None raises. *)
(***************************************************************************)
NoWindResult == Tuple(<<Str(""), NoWindData>>)

C9_WindSpeedAsClaimed ==
    Returned("convert_wind_speed") =>
        LET raw  == args[1]
            code == args[2]
        IN  IF IsNone(raw) THEN ret = NoWindResult
            ELSE IF IsStr(code) /\ Contains(code.s, "m_s")
                THEN ret = Tuple(<<Num(RoundHalfEven(raw.p * 223694, raw.q * 100000)),
                                   Str("mph")>>)
            ELSE IF IsStr(code) /\ Contains(code.s, "km_h")
                THEN ret = Tuple(<<Num(RoundHalfEven(raw.p * 621371, raw.q * 1000000)),
                                   Str("mph")>>)
            ELSE ret = NoWindResult

\* C9 holds whenever the code is a string
C9_WindSpeedStringCodes ==
    (Returned("convert_wind_speed") /\ IsStr(args[2])) => C9_WindSpeedAsClaimed

\* the last clause of C9 read by the unit rather than by the marker: a code
\* that is neither meters per second nor kilometers per hour is not converted.
\* "wmoUnit:mm_s-1" contains the marker "m_s" and is converted.
C9_NoForeignUnitConverted ==
    (Returned("convert_wind_speed") /\ IsStr(args[2])
       /\ args[2].s \notin {"wmoUnit:m_s-1", "wmoUnit:km_h-1", "m_s", "km_h"}) =>
        ret = NoWindResult

(***************************************************************************)
(* C10.  degrees_to_cardinal(d) is "" for an absent d and otherwise the    *)
(* label at index floor((d + 11.25) / 22.5) mod 16, for every d.           *)
(* As stated it fails below -11.25: int() truncates toward zero.           *)
(***************************************************************************)
FloorIndex(d) == ((4 * d.p + 45 * d.q) \div (90 * d.q)) % 16

C10_CardinalFloor ==
    Returned("degrees_to_cardinal") =>
        ret = IF IsNone(args[1]) THEN Str("")
              ELSE Str(directions[FloorIndex(args[1]) + 1])

\* C10 as amended: the same for every d >= -11.25, which covers 0..360 and the
\* wrap at 360: 0, 360, 348.75 and 11.24 give N and 11.26 gives NNE
C10_CardinalFloorFromMinus1125 ==
    Returned("degrees_to_cardinal") =>
        LET d == args[1]
        IN  /\ IsNone(d) => ret = Str("")
            /\ (IsNum(d) /\ 4 * d.p + 45 * d.q >= 0) =>
                   ret = Str(directions[FloorIndex(d) + 1])
            /\ d \in {Num(0), Num(360), Rat(34875, 100), Rat(1124, 100)} =>
                   ret = Str("N")
            /\ d = Rat(1126, 100) => ret = Str("NNE")

C10_Witness ==
    /\ Returned("degrees_to_cardinal")
    /\ args[1] = Rat(34875, 100)
    /\ ret = Str("N")

(***************************************************************************)
(* core/utils.py: the moon.  A phase is a number on the 0-28 scale of      *)
(* astral's phase().                                                       *)
(***************************************************************************)
\* phases range over hundredths in 0 .. MaxPhase
MaxPhase == 28

\* the emoji literals of the file are four characters each, written here by
\* their code points
moon_emoji_of(n) ==
    Str("U+00F0 U+0178 U+0152 U+" \o
        <<"2018", "2019", "201C", "201D", "2022", "2013", "2014", "02DC">>[n])

\* get_moon_details with <= in place of < at every boundary
get_moon_details_closed(moon_phase) ==
    IF ~IsNum(moon_phase) THEN Raise("TypeError")
    ELSE LET h == 100 * moon_phase.p
             q == moon_phase.q
         IN  IF h <= 184 * q THEN Tuple(<<Str("New Moon"), moon_emoji_of(1)>>)
             ELSE IF h <= 553 * q THEN Tuple(<<Str("Waxing Crescent"), moon_emoji_of(2)>>)
             ELSE IF h <= 922 * q THEN Tuple(<<Str("First Quarter"), moon_emoji_of(3)>>)
             ELSE IF h <= 1291 * q THEN Tuple(<<Str("Waxing Gibbous"), moon_emoji_of(4)>>)
             ELSE IF h <= 1661 * q THEN Tuple(<<Str("Full Moon"), moon_emoji_of(5)>>)
             ELSE IF h <= 2030 * q THEN Tuple(<<Str("Waning Gibbous"), moon_emoji_of(6)>>)
             ELSE IF h <= 2399 * q THEN Tuple(<<Str("Last Quarter"), moon_emoji_of(7)>>)
             ELSE Tuple(<<Str("Waning Crescent"), moon_emoji_of(8)>>)

\* moon_phase < 1.84 for moon_phase = p/q is 100p < 184q; None < 1.84 and
\* "x" < 1.84 are a TypeError
get_moon_details(moon_phase) ==
    IF ~IsNum(moon_phase) THEN Raise("TypeError")
    ELSE LET h == 100 * moon_phase.p
             q == moon_phase.q
         IN  IF h < 184 * q THEN Tuple(<<Str("New Moon"), moon_emoji_of(1)>>)
             ELSE IF h < 553 * q THEN Tuple(<<Str("Waxing Crescent"), moon_emoji_of(2)>>)
             ELSE IF h < 922 * q THEN Tuple(<<Str("First Quarter"), moon_emoji_of(3)>>)
             ELSE IF h < 1291 * q THEN Tuple(<<Str("Waxing Gibbous"), moon_emoji_of(4)>>)
             ELSE IF h < 1661 * q THEN Tuple(<<Str("Full Moon"), moon_emoji_of(5)>>)
             ELSE IF h < 2030 * q THEN Tuple(<<Str("Waning Gibbous"), moon_emoji_of(6)>>)
             ELSE IF h < 2399 * q THEN Tuple(<<Str("Last Quarter"), moon_emoji_of(7)>>)
             ELSE Tuple(<<Str("Waning Crescent"), moon_emoji_of(8)>>)

\* (1 - abs(moon_phase - 14) / 14) * 100 without the abs
moon_illumination_signed(moon_phase) ==
    IF ~IsNum(moon_phase) THEN Raise("TypeError")
    ELSE LET d == moon_phase.p - 14 * moon_phase.q
         IN  py_round(Rat(100 * (14 * moon_phase.q - d), 14 * moon_phase.q))

\* round((1 - abs(moon_phase - 14) / 14) * 100): for moon_phase = p/q the
\* rounded value is 100 * (14q - |p - 14q|) / (14q)
moon_illumination(moon_phase) ==
    IF ~IsNum(moon_phase) THEN Raise("TypeError")
    ELSE LET d == Abs(moon_phase.p - 14 * moon_phase.q)
         IN  py_round(Rat(100 * (14 * moon_phase.q - d), 14 * moon_phase.q))

\* str(n) for an int n >= 0
RECURSIVE int_str(_)
int_str(n) ==
    IF n < 10 THEN SubSeq("0123456789", n + 1, n + 1)
    ELSE int_str(n \div 10) \o SubSeq("0123456789", (n % 10) + 1, (n % 10) + 1)

\* the stop value of range(1, 40): the loop variable takes 1 .. ScanStop - 1
ScanStop == 40

\* abs(moon_phase_check - 14) < 1.0
is_full_moon(p) == Abs(p.p - 14 * p.q) < p.q

\* moon_phase_check < 1.0 or moon_phase_check > 27.0
is_new_moon(p) == p.p < p.q \/ p.p > 27 * p.q

days_until_str(i) == IF i = 1 THEN "tomorrow" ELSE "in " \o int_str(i) \o " days"

\* The loop from iteration i on, with the two strings found so far.
\* phase_at[i] is what astral_phase(today + timedelta(days=i)) gives: a phase,
\* or an exception.  The result is the two strings at the end of the loop, or
\* the exception that left it.
RECURSIVE moon_scan(_, _, _, _)
moon_scan(phase_at, i, full_str, new_str) ==
    IF i >= ScanStop THEN Tuple(<<full_str, new_str>>)
    ELSE IF IsRaise(phase_at[i]) THEN phase_at[i]
    ELSE LET f == IF full_str = "" /\ is_full_moon(phase_at[i])
                      THEN days_until_str(i) ELSE full_str
             n == IF new_str = "" /\ is_new_moon(phase_at[i])
                      THEN days_until_str(i) ELSE new_str
         IN  IF f # "" /\ n # "" THEN Tuple(<<f, n>>)
             ELSE moon_scan(phase_at, i + 1, f, n)

\* the pair (next_full_moon_str, next_new_moon_str) after the try statement
next_moon_search(phase_at) ==
    LET r == moon_scan(phase_at, 1, "", "")
    IN  IF IsRaise(r) THEN Tuple(<<NA, NA>>)
        ELSE Tuple(<<IF r.v[1] = "" THEN NA ELSE Str(r.v[1]),
                     IF r.v[2] = "" THEN NA ELSE Str(r.v[2])>>)

(***************************************************************************)
(* SpecAstro: one call of a moon function of core/utils.py on arguments    *)
(* drawn from bounded grids.                                               *)
(***************************************************************************)
PhaseGrid == {Rat(n, 100) : n \in 0..(100 * MaxPhase)}

\* the illumination is computed in floating point, where a value that is
\* exactly halfway between two integers (0.07 gives 0.5) need not round as the
\* exact value does; on tenths of a phase no such tie occurs
IlluminationGrid == {Rat(n, 10) : n \in 0..(10 * MaxPhase)}

\* the phases of the coming days are drawn for the offsets 1 .. MaxOffset
MaxOffset == 41

\* phases that match neither kind (the boundaries 13, 1 and 27), phases that
\* match one, and a date computation that raises
SearchSamples ==
    {Num(13), Num(14), Rat(1499, 100), Rat(1, 2), Num(1), Rat(2701, 100), Num(27),
     Raise("OverflowError")}

\* the days are all at phase 7 but for two offsets a and b
PhaseSeqs ==
    {[i \in 1..MaxOffset |-> IF i = a THEN x ELSE IF i = b THEN y ELSE Num(7)] :
        <<a, b, x, y>> \in (1..MaxOffset) \X (1..MaxOffset)
                            \X SearchSamples \X SearchSamples}

AstroCalls ==
    ({"get_moon_details"} \X {<<p>> : p \in PhaseGrid})
    \cup ({"next_moon_search"} \X {<<ph>> : ph \in PhaseSeqs})
    \cup ({"moon_illumination"} \X {<<p>> : p \in IlluminationGrid})

InitAstro ==
    /\ \E call \in AstroCalls : fn = call[1] /\ args = call[2]
    /\ pc = "call"
    /\ mid = None
    /\ ret = None
    /\ features = << >>
    /\ obs = EmptyDict
    /\ unit = "F"
    /\ state_abbrev = None
    /\ result = None
    /\ NoRequest

CallGetMoonDetails ==
    /\ pc = "call"
    /\ fn = "get_moon_details"
    /\ ret' = get_moon_details(args[1])
    /\ pc' = "done"
    /\ UNCHANGED <<features, obs, unit, state_abbrev, result, fn, args, mid>>
    /\ UNCHANGED index_vars

CallMoonIllumination ==
    /\ pc = "call"
    /\ fn = "moon_illumination"
    /\ ret' = moon_illumination(args[1])
    /\ pc' = "done"
    /\ UNCHANGED <<features, obs, unit, state_abbrev, result, fn, args, mid>>
    /\ UNCHANGED index_vars

CallNextMoonSearch ==
    /\ pc = "call"
    /\ fn = "next_moon_search"
    /\ ret' = next_moon_search(args[1])
    /\ pc' = "done"
    /\ UNCHANGED <<features, obs, unit, state_abbrev, result, fn, args, mid>>
    /\ UNCHANGED index_vars

NextAstro ==
    \/ CallNextMoonSearch
    \/ CallGetMoonDetails
    \/ CallMoonIllumination

SpecAstro == InitAstro /\ [][NextAstro]_vars

(***************************************************************************)
(* C11.  get_moon_details maps every phase in [0, 28) to exactly one of    *)
(* the eight names by the half-open intervals [0,1.84) New Moon,           *)
(* [1.84,5.53) Waxing Crescent, [5.53,9.22) First Quarter, [9.22,12.91)    *)
(* Waxing Gibbous, [12.91,16.61) Full Moon, [16.61,20.30) Waning Gibbous,  *)
(* [20.30,23.99) Last Quarter, [23.99,28) Waning Crescent; a boundary      *)
(* value belongs to the upper interval: 1.83 is New Moon, 1.84 is Waxing   *)
(* Crescent.                                                               *)
(***************************************************************************)
\* the claimed intervals, in hundredths: <<lower, upper, name>>
PhaseIntervals ==
    << <<0, 184, "New Moon">>, <<184, 553, "Waxing Crescent">>,
       <<553, 922, "First Quarter">>, <<922, 1291, "Waxing Gibbous">>,
       <<1291, 1661, "Full Moon">>, <<1661, 2030, "Waning Gibbous">>,
       <<2030, 2399, "Last Quarter">>, <<2399, 2800, "Waning Crescent">> >>

InInterval(p, iv) == iv[1] * p.q <= 100 * p.p /\ 100 * p.p < iv[2] * p.q

C11_MoonPhaseIntervals ==
    (Returned("get_moon_details") /\ 0 <= args[1].p /\ args[1].p < 28 * args[1].q) =>
        /\ ret.t = "tuple"
        /\ Cardinality({k \in 1..8 : InInterval(args[1], PhaseIntervals[k])}) = 1
        /\ \A k \in 1..8 :
               InInterval(args[1], PhaseIntervals[k]) =>
                   ret.v[1] = Str(PhaseIntervals[k][3])
        /\ args[1] = Rat(183, 100) => ret.v[1] = Str("New Moon")
        /\ args[1] = Rat(184, 100) => ret.v[1] = Str("Waxing Crescent")

\* the boundary 1.84 is Waxing Crescent
C11_Witness ==
    /\ Returned("get_moon_details")
    /\ args[1] = Rat(184, 100)
    /\ ret = Tuple(<<Str("Waxing Crescent"), moon_emoji_of(2)>>)

(***************************************************************************)
(* C12.  The moon illumination is round((1 - |p - 14| / 14) * 100) for the *)
(* phase p: 100 at p = 14, 0 at p = 0 and at p = 28, and within 0..100 for *)
(* every p in [0, 28].                                                     *)
(***************************************************************************)
C12_Illumination ==
    (Returned("moon_illumination") /\ args[1].p <= 28 * args[1].q) =>
        LET p == args[1]
            d == Abs(p.p - 14 * p.q)
        IN  /\ IsNum(ret)
            /\ ret.q = 1
            \* ret is the integer nearest to x = 100 * (14q - d) / (14q)
            /\ Abs(ret.p * 14 * p.q - 100 * (14 * p.q - d)) * 2 <= 14 * p.q
            /\ 0 <= ret.p /\ ret.p <= 100
            /\ p = Num(14) => ret = Num(100)
            /\ p \in {Num(0), Num(28)} => ret = Num(0)

C12_Witness ==
    /\ Returned("moon_illumination")
    /\ args[1] = Num(28)
    /\ ret = Num(0)

(***************************************************************************)
(* C13.  The search for the next full and the next new moon scans the day  *)
(* offsets 1 through the 40-day horizon and reports, for each kind on its  *)
(* own, the smallest offset N whose phase matches (full: |p - 14| < 1.0;   *)
(* new: p < 1.0 or p > 27.0) as "tomorrow" for N = 1 and "in N days"       *)
(* otherwise; it reports "N/A" for a kind exactly when no offset up to the *)
(* horizon matches that kind, and never raises.                            *)
(* Fails for a first match at offset 40: range(1, 40) ends at 39.          *)
(***************************************************************************)
FullMatch(p) == IsNum(p) /\ Abs(p.p - 14 * p.q) < p.q
NewMatch(p) == IsNum(p) /\ (p.p < p.q \/ p.p > 27 * p.q)

Min(S) == CHOOSE n \in S : \A m \in S : n <= m

\* what the claim reports for the offsets S that match a kind
Reported(S) ==
    IF S = {} THEN NA
    ELSE IF Min(S) = 1 THEN Str("tomorrow")
    ELSE Str("in " \o int_str(Min(S)) \o " days")

\* the claim for the offsets 1 .. last, on phases that can all be computed
SearchAsClaimed(last) ==
    LET ph == args[1]
    IN  /\ ret.t = "tuple"
        /\ (\A i \in 1..last : IsNum(ph[i])) =>
               /\ ret.v[1] = Reported({i \in 1..last : FullMatch(ph[i])})
               /\ ret.v[2] = Reported({i \in 1..last : NewMatch(ph[i])})

C13_NextMoonSearch ==
    Returned("next_moon_search") => SearchAsClaimed(ScanStop)

\* what holds: the same with offset 39 as the last one scanned
C13_NextMoonSearchTo39 ==
    Returned("next_moon_search") => SearchAsClaimed(ScanStop - 1)

\* an exception of the date or phase computation gives "N/A" for both kinds,
\* also for a kind found before it
C13_NeverRaises ==
    Returned("next_moon_search") =>
        /\ ret.t = "tuple"
        /\ (\E i \in 1..(ScanStop - 1) :
                /\ IsRaise(args[1][i])
                /\ \A j \in 1..(i - 1) : IsNum(args[1][j])
                /\ \/ \A j \in 1..(i - 1) : ~FullMatch(args[1][j])
                   \/ \A j \in 1..(i - 1) : ~NewMatch(args[1][j]))
            => ret = Tuple(<<NA, NA>>)

(***************************************************************************)
(* core/weather_service.py: the requests of WeatherService.  A request is  *)
(* modelled by what the collaborator has to give: the parsed body of the   *)
(* response, or the exception the call raises.                             *)
(***************************************************************************)
\* s.strip(), for the blanks the model draws
RECURSIVE lstrip(_)
lstrip(s) ==
    IF Len(s) > 0 /\ SubSeq(s, 1, 1) = " " THEN lstrip(SubSeq(s, 2, Len(s))) ELSE s

RECURSIVE rstrip(_)
rstrip(s) ==
    IF Len(s) > 0 /\ SubSeq(s, Len(s), Len(s)) = " "
    THEN rstrip(SubSeq(s, 1, Len(s) - 1)) ELSE s

strip(s) == lstrip(rstrip(s))

\* re.match(r'^\d{5}(-\d{4})?$', s)
zip_pattern(s) ==
    \/ Len(s) = 5 /\ AllDigits(s)
    \/ /\ Len(s) = 10
       /\ AllDigits(SubSeq(s, 1, 5))
       /\ SubSeq(s, 6, 6) = "-"
       /\ AllDigits(SubSeq(s, 7, 10))

\* a geopy Location; it is truthy
Location(latitude, longitude, address_components) ==
    [t |-> "location", latitude |-> latitude, longitude |-> longitude,
     raw |-> Dict([address |-> Dict(address_components)])]

\* the classes that "except (GeocoderTimedOut, GeocoderServiceError)" catches:
\* the two and the other subclasses of GeocoderServiceError
GeocoderErrors == {"GeocoderServiceError", "GeocoderTimedOut", "GeocoderUnavailable"}

NoLocation == Tuple(<<None, None, None>>)

\* 24 <= latitude <= 50 and -125 <= longitude <= -65
in_us_bounds(loc) ==
    /\ 24 * loc.latitude.q <= loc.latitude.p
    /\ loc.latitude.p <= 50 * loc.latitude.q
    /\ -125 * loc.longitude.q <= loc.longitude.p
    /\ loc.longitude.p <= -65 * loc.longitude.q

\* g1 is what the first geocode call gives and g2 what the second one of the
\* ZIP path gives: a Location, None, or an exception.  Returns the tuple
\* (lat, lon, location), or raises.
get_location_coordinates(addr, g1, g2) ==
    IF ~IsStr(addr) THEN Raise("AttributeError")
    ELSE IF zip_pattern(strip(addr.s)) THEN
        LET zip_num == DigitsVal(SubSeq(strip(addr.s), 1, 5))
        IN  IF zip_num < 501 \/ zip_num > 99950 THEN NoLocation
            ELSE IF IsRaise(g1) THEN NoLocation
            ELSE LET loc == IF Truthy(g1) THEN g1 ELSE g2
                 IN  IF IsRaise(loc) THEN NoLocation
                     ELSE IF Truthy(loc) /\ in_us_bounds(loc)
                         THEN Tuple(<<loc.latitude, loc.longitude, loc>>)
                     ELSE NoLocation
    ELSE IF IsRaise(g1) THEN
        (IF g1.e \in GeocoderErrors THEN Raise("Exception") ELSE g1)
    ELSE IF Truthy(g1) THEN Tuple(<<g1.latitude, g1.longitude, g1>>)
    ELSE NoLocation

\* the geocode calls get_location_coordinates makes, by what each gave
geocode_calls(addr, g1, g2) ==
    IF ~IsStr(addr) THEN << >>
    ELSE IF zip_pattern(strip(addr.s)) THEN
        LET zip_num == DigitsVal(SubSeq(strip(addr.s), 1, 5))
        IN  IF zip_num < 501 \/ zip_num > 99950 THEN << >>
            ELSE IF IsRaise(g1) \/ Truthy(g1) THEN <<g1>>
            ELSE <<g1, g2>>
    ELSE <<g1>>

\* data.get("properties")
get_metadata(resp) ==
    IF IsRaise(resp) THEN resp ELSE dict_get(resp, "properties", None)

\* data.get("properties", {}).get("periods", [])
get_forecast(resp) ==
    IF IsRaise(resp) THEN resp
    ELSE dict_get(dict_get(resp, "properties", EmptyDict), "periods", List(<< >>))

alert_of(feature) ==
    LET props == dict_get(feature, "properties", EmptyDict)
    IN  Dict([k \in {"event", "severity", "headline", "description", "instruction",
                     "urgency"} |-> dict_get(props, k, None)])

get_active_alerts(resp) ==
    IF IsRaise(resp) THEN resp
    ELSE LET feats == dict_get(resp, "features", List(<< >>)).v
         IN  List([i \in 1..Len(feats) |-> alert_of(feats[i])])

(***************************************************************************)
(* core/utils.py: get_astronomy_data.  tz_name is what                     *)
(* TimezoneFinder.timezone_at gives (a zone name, or None where it finds   *)
(* none), sun_data what astral's sun() gives, with a time of day in        *)
(* minutes for a datetime, moon_phase and phase_at what astral's phase()   *)
(* gives for today and for the days after it.                              *)
(***************************************************************************)
two_digits(n) == IF n < 10 THEN "0" \o int_str(n) ELSE int_str(n)

\* strftime('%-I:%M %p') of a time of day in minutes
time_str(m) ==
    LET h == (m.p \div 60) % 24
        h12 == IF h % 12 = 0 THEN 12 ELSE h % 12
    IN  int_str(h12) \o ":" \o two_digits(m.p % 60) \o (IF h < 12 THEN " AM" ELSE " PM")

\* pytz.timezone(None) raises UnknownTimeZoneError
get_astronomy_data(tz_name, sun_data, moon_phase, phase_at) ==
    IF ~IsStr(tz_name) THEN Raise("UnknownTimeZoneError")
    ELSE IF IsRaise(sun_data) THEN sun_data
    ELSE LET details == get_moon_details(moon_phase)
             moon_illum == moon_illumination(moon_phase)
             next_moons == next_moon_search(phase_at)
         IN  IF IsRaise(details) THEN details
             ELSE IF IsRaise(moon_illum) THEN moon_illum
             ELSE Dict([sunrise |-> Str(time_str(sun_data.d["sunrise"])),
                        sunset |-> Str(time_str(sun_data.d["sunset"])),
                        moon_name |-> details.v[1],
                        moon_emoji |-> details.v[2],
                        moon_illumination |-> moon_illum,
                        next_full_moon |-> next_moons.v[1],
                        next_new_moon |-> next_moons.v[2],
                        sunrise_dt |-> sun_data.d["sunrise"],
                        sunset_dt |-> sun_data.d["sunset"],
                        timezone |-> tz_name])

(***************************************************************************)
(* core/views.py and mysite/core/views.py: index.  The older revision      *)
(* imports get_location_coordinates and the other collaborator calls from  *)
(* its own package; they are taken to be the ones of core/.                *)
(***************************************************************************)
\* s.upper(), for the letters a-z
RECURSIVE upper(_)
upper(s) ==
    IF Len(s) = 0 THEN ""
    ELSE LET c == SubSeq(s, 1, 1)
             low == {i \in 1..26 : SubSeq("abcdefghijklmnopqrstuvwxyz", i, i) = c}
         IN  (IF low = {} THEN c
              ELSE LET i == CHOOSE j \in low : TRUE
                   IN  SubSeq("ABCDEFGHIJKLMNOPQRSTUVWXYZ", i, i))
             \o upper(SubSeq(s, 2, Len(s)))

\* s.split('-')[-1]
RECURSIVE after_last_dash(_)
after_last_dash(s) ==
    LET dashes == {i \in 1..Len(s) : SubSeq(s, i, i) = "-"}
    IN  IF dashes = {} THEN s
        ELSE after_last_dash(SubSeq(s, (CHOOSE i \in dashes : TRUE) + 1, Len(s)))

\* d[k] = v on a dict value
dict_set(d, k, v) == Dict((k :> v) @@ d.d)

\* a.update(b)
dict_update(a, b) == Dict(b.d @@ a.d)

\* render(request, "core/index.html", context)
Render(context) == [t |-> "render", template |-> "core/index.html", context |-> context]

error_page(error_message, error_type, u) ==
    Render([error_message |-> Str(error_message), error_type |-> Str(error_type),
            unit |-> Str(u)])

address_components_of(loc) == dict_get(loc.raw, "address", EmptyDict)

\* lines 64-99 without the test of the country code
location_error_any_country(r, u) ==
    IF IsRaise(r) THEN
        IF r.e \in GeocoderErrors
        THEN error_page("Our location service is temporarily busy. Please try again in a moment.",
                        "timeout", u)
        ELSE error_page("Something went wrong. Please try again.", "general", u)
    ELSE IF ~Truthy(r.v[3])
        THEN error_page("Location not found. Please check and try again.", "not_found", u)
    ELSE None

\* lines 64-99 (31-66 in the older revision), given what
\* get_location_coordinates returned or raised: the error page index returns,
\* or None when the request goes on
location_error(r, u) ==
    IF IsRaise(r) THEN
        IF r.e \in GeocoderErrors
        THEN error_page("Our location service is temporarily busy. Please try again in a moment.",
                        "timeout", u)
        ELSE error_page("Something went wrong. Please try again.", "general", u)
    ELSE IF ~Truthy(r.v[3])
        THEN error_page("Location not found. Please check and try again.", "not_found", u)
    ELSE LET address_components == address_components_of(r.v[3])
             country_code == upper(dict_get(address_components, "country_code", Str("")).s)
         IN  IF country_code # "" /\ country_code # "US"
             THEN error_page("We found your location in "
                                \o dict_get(address_components, "country",
                                            Str("another country")).s
                                \o ", but we currently only support USA weather.",
                             "international", u)
             ELSE None

\* lines 156-163
state_abbrev_of(loc) ==
    LET address_components == address_components_of(loc)
        iso == dict_get(address_components, "ISO3166-2-lvl4", None)
        from_iso == IF Truthy(iso) THEN Str(after_last_dash(iso.s)) ELSE None
    IN  IF ~Truthy(from_iso) THEN dict_get(address_components, "state", None)
        ELSE from_iso

\* round(x, 2), in hundredths
round_2(x) == RoundHalfEven(100 * x.p, x.q)

\* str() of a float that is h hundredths: at least one decimal, no trailing
\* zero after it
hundredths_str(h) ==
    LET a == Abs(h)
    IN  (IF h < 0 THEN "-" ELSE "") \o int_str(a \div 100) \o "."
        \o (IF a % 10 = 0 THEN int_str((a % 100) \div 10) ELSE two_digits(a % 100))

\* f"weather_{round(lat, 2)}_{round(lon, 2)}"
cache_key_of(la, lo) ==
    "weather_" \o hundredths_str(round_2(la)) \o "_" \o hundredths_str(round_2(lo))

\* lines 184-189: the period with the converted temperature t, or the
\* exception the conversion raised
period_with(period, t) ==
    IF IsRaise(t) THEN t
    ELSE dict_set(dict_set(period, "temperature", t), "temperatureUnit", Str("C"))

\* a loop over a list ends at the first exception
list_or_raise(outs) ==
    IF any_raise(outs) THEN first_raise(outs) ELSE List(outs)

\* the body of the loop of lines 183-189
convert_period(period) ==
    IF "temperature" \notin DOMAIN period.d THEN Raise("KeyError")
    ELSE period_with(period, convert_temperature(period.d["temperature"], "F", "C"))

\* lines 183-189 (114-120 on a cache hit): the converted list, or the exception
convert_forecasts(fc) ==
    list_or_raise([i \in 1..Len(fc.v) |-> convert_period(fc.v[i])])

\* a < b for two numbers
less_than(a, b) == a.p * b.q < b.p * a.q

\* lines 195-201: now is what datetime.now(local_tz) gives, as a time of day
is_night_of(astro, now) ==
    IF "timezone" \notin DOMAIN astro.d \/ ~IsStr(astro.d["timezone"]) THEN Bool(FALSE)
    ELSE Bool(less_than(now, astro.d["sunrise_dt"]) \/ less_than(astro.d["sunset_dt"], now))

\* lines 225-228
detailed_forecast_of(fc) ==
    IF Truthy(fc) /\ Len(fc.v) > 0
    THEN dict_get(fc.v[1], "detailedForecast", Str(""))
    ELSE Str("")

\* the context of lines 131-144 and 240-253
weather_page(fc, cw, alerts) ==
    Render([forecasts |-> fc, current |-> cw, address |-> address,
            active_alerts |-> alerts, unit |-> Str(unit),
            show_random_location_message |-> Bool(show_random_location_message),
            lat |-> lat, lon |-> lon])

\* the context of lines 111-121 of the older revision
mysite_weather_page(fc, cw, alerts) ==
    Render([forecasts |-> fc, current |-> cw, address |-> address,
            active_alerts |-> alerts, unit |-> Str(unit)])

\* lines 123-129: the cached current weather with its temperature converted
current_with(cw, t) ==
    IF IsRaise(t) THEN t ELSE dict_set(cw, "temp", t)

cache_hit_current(cw, temp) ==
    IF Truthy(temp) /\ temp # NA /\ unit = "C"
    THEN current_with(cw, convert_temperature(temp, "F", "C"))
    ELSE cw

\* lines 131-144, or the exception raised before them
cache_hit_page(f2, cw2, alerts) ==
    IF IsRaise(f2) THEN f2
    ELSE IF IsRaise(cw2) THEN cw2
    ELSE weather_page(f2, cw2, alerts)

\* lines 105-144: what index returns or raises on a cache hit
cache_hit_response(cached_data) ==
    cache_hit_page(IF unit = "C" THEN convert_forecasts(cached_data.d["forecasts"])
                   ELSE cached_data.d["forecasts"],
                   cache_hit_current(cached_data.d["current"],
                                     dict_get(cached_data.d["current"], "temp", None)),
                   cached_data.d["active_alerts"])

\* lines 191-228: current_weather after the updates of the astronomy data,
\* is_night, the alerts and the detailed forecast
index_current(f2, alerts, astro, cw, now) ==
    dict_set(dict_set(dict_set(dict_update(cw, astro),
                               "is_night", is_night_of(astro, now)),
                      "active_alerts", alerts),
             "detailed_forecast", detailed_forecast_of(f2))

\* lines 231-253: the value handed to cache.set and the rendered page
index_store(f2, cw4, alerts) ==
    [cache_data |-> Dict([forecasts |-> f2, current |-> cw4,
                          active_alerts |-> alerts,
                          state_abbrev |-> state_abbrev]),
     response |-> weather_page(f2, cw4, alerts)]

\* lines 190-253, f2 being the forecasts after lines 182-189
index_converted(f2, alerts, astro, cw, now) ==
    IF IsRaise(f2) THEN [cache_data |-> None, response |-> f2]
    ELSE index_store(f2, index_current(f2, alerts, astro, cw, now), alerts)

\* lines 181-253, after the with statement: the value handed to cache.set
\* (None when the line is not reached) and what index returns or raises
index_finish(fc, alerts, astro, cw, now) ==
    index_converted(IF unit = "C" THEN convert_forecasts(fc) ELSE fc,
                    alerts, astro, cw, now)

\* cache.set(key, value, 600) of line 238; value is None when an exception left
\* index before the line
cache_set(c, key, value) ==
    IF value = None THEN c ELSE (key.s :> value) @@ c

\* get_current_weather with its two requests: stations and observation are
\* what the requests of get_nearest_station and get_current_observations
\* give, a list of features and a dict of properties, or an exception
core_current_weather(stations, observation, u, abbrev) ==
    IF IsRaise(stations) THEN stations
    ELSE LET tup == unpack(get_nearest_station(stations.v), 3)
         IN  IF IsRaise(tup) THEN tup
             ELSE IF Truthy(tup.v[1]) /\ IsRaise(observation) THEN observation
             ELSE get_current_weather(stations.v, observation, u, abbrev)

mysite_current_weather(stations, observation, u) ==
    IF IsRaise(stations) THEN stations
    ELSE LET tup == unpack(get_nearest_station(stations.v), 2)
         IN  IF IsRaise(tup) THEN tup
             ELSE IF Truthy(tup.v[1]) /\ IsRaise(observation) THEN observation
             ELSE mysite_get_current_weather(stations.v, observation, u)

\* max_workers of the ThreadPoolExecutor
max_workers == 3

\* leaving the with statement is executor.shutdown(wait=True), without the
\* wait
executor_exit_no_wait(ts) == TRUE

\* leaving the with statement is executor.shutdown(wait=True): it returns once
\* every submitted call has finished
executor_exit(ts) == \A n \in DOMAIN ts : ts[n].st \in {"new", "done"}

(***************************************************************************)
(* SpecIndex: requests served by index, one after the other, in one of the *)
(* two revisions.  What the collaborators give is drawn when they are      *)
(* called.  A cache entry lives for 600 seconds; its expiry is not         *)
(* modelled.                                                               *)
(***************************************************************************)
Methods == {"GET", "POST"}

\* no address field, an empty one, a blank one, a ZIP code, a ZIP code below
\* the valid range, a city
AddressInputs ==
    {None, Str(""), Str(" "), Str("62701"), Str("00100"), Str("Springfield, IL")}

\* the first two of the twenty entries of the list; every entry is a city and
\* state, which takes the same path
random_locations == <<"Miami, FL", "Seattle, WA">>

LocSpringfield ==
    Location(Rat(397817, 10000), Rat(-896501, 10000),
             ("country_code" :> Str("us")) @@ ("country" :> Str("United States"))
             @@ ("ISO3166-2-lvl4" :> Str("US-IL")) @@ ("state" :> Str("Illinois")))

\* in the USA and outside the bounds the ZIP path accepts
LocHonolulu ==
    Location(Rat(213069, 10000), Rat(-1578583, 10000),
             ("country_code" :> Str("us")) @@ ("country" :> Str("United States"))
             @@ ("state" :> Str("Hawaii")))

LocToronto ==
    Location(Rat(436532, 10000), Rat(-793832, 10000),
             ("country_code" :> Str("ca")) @@ ("country" :> Str("Canada"))
             @@ ("ISO3166-2-lvl4" :> Str("CA-ON")) @@ ("state" :> Str("Ontario")))

\* what a geocode call gives
GeoOutcomes ==
    {None, Raise("GeocoderTimedOut"), Raise("GeocoderUnavailable"), Raise("ValueError"),
     LocSpringfield, LocHonolulu, LocToronto}

RequestFailure == Raise("RequestException")

MetadataResponses ==
    {RequestFailure, EmptyDict,
     Dict([properties |->
              Dict([forecast |-> Str("https://api.weather.gov/gridpoints/ILX/50,60/forecast"),
                    observationStations |->
                        Str("https://api.weather.gov/gridpoints/ILX/50,60/stations")])])}

Period(temperature, detailed) ==
    Dict([temperature |-> temperature, temperatureUnit |-> Str("F"),
          detailedForecast |-> Str(detailed)])

ForecastResponses ==
    {RequestFailure, EmptyDict,
     Dict([properties |->
              Dict([periods |-> List(<<Period(Num(68), "Sunny"),
                                       Period(Num(33), "Clear")>>)])])}

AlertsResponses ==
    {RequestFailure,
     Dict([features |-> List(<< >>)]),
     Dict([features |->
              List(<<Dict([properties |->
                              Dict([event |-> Str("Flood Watch"),
                                    severity |-> Str("Moderate")])])>>)])}

\* the days after today: a new moon in 9 days, a full moon in 23
PhasesAhead ==
    [i \in 1..MaxOffset |-> IF i = 9 THEN Rat(1, 2) ELSE IF i = 23 THEN Num(14) ELSE Num(7)]

\* sunrise at 6:00 and sunset at 18:30
AstronomyInputs ==
    [tz_name : {None, Str("America/Chicago")},
     sun_data : {Dict([sunrise |-> Num(360), sunset |-> Num(1110)])},
     moon_phase : {Rat(1925, 100)},
     phase_at : {PhasesAhead}]

\* the time of day datetime.now gives
Clock == {Num(300), Num(360), Num(720), Num(1110), Num(1200)}

IndexObservation ==
    make_dict([BaseRaw EXCEPT !["temperature"] = Meas(Rat(5, 2))])

CurrentWeatherInputs ==
    [stations : {RequestFailure, List(<< >>),
                 List(<<Station(Str("KSPI"), Str("Springfield"))>>)},
     observation : {RequestFailure, IndexObservation}]

InitIndex ==
    /\ rev \in {"core", "mysite"}
    /\ pc = "idle"
    /\ method = "GET"
    /\ address = Unset
    /\ show_random_location_message = FALSE
    /\ lat = Unset
    /\ lon = Unset
    /\ location = Unset
    /\ cache_key = Unset
    /\ metadata = Unset
    /\ forecasts = Unset
    /\ active_alerts = Unset
    /\ astronomy = Unset
    /\ current_weather = Unset
    /\ tasks = [n \in 1..Len(TaskNames) |-> [st |-> "new", out |-> Unset]]
    /\ exc = None
    /\ cache = << >>
    /\ calls = << >>
    /\ response = Unset
    /\ unit = "F"
    /\ state_abbrev = None
    /\ features = << >>
    /\ obs = EmptyDict
    /\ result = None
    /\ fn = "none"
    /\ args = << >>
    /\ mid = None
    /\ ret = None

\* the variables of the other specifications
other_vars == <<features, obs, result, fn, args, mid, ret>>

\* lines 17-61 (15-29 in the older revision): a request arrives; the names of
\* the function start unassigned
ReceiveRequest ==
    /\ pc \in {"idle", "done"}
    /\ \E m \in Methods, a \in AddressInputs, u \in Units :
          /\ method' = m
          /\ unit' = u
          /\ IF m # "POST" THEN
                 /\ address' = Str("")
                 /\ show_random_location_message' = FALSE
                 /\ response' = Render([unit |-> Str(u)])
                 /\ pc' = "done"
             ELSE IF rev = "core" /\ (~Truthy(a) \/ strip(a.s) = "") THEN
                 /\ \E i \in 1..Len(random_locations) :
                        address' = Str(random_locations[i])
                 /\ show_random_location_message' = TRUE
                 /\ response' = Unset
                 /\ pc' = "geocode"
             ELSE
                 /\ address' = a
                 /\ show_random_location_message' = FALSE
                 /\ response' = Unset
                 /\ pc' = "geocode"
    /\ lat' = Unset
    /\ lon' = Unset
    /\ location' = Unset
    /\ cache_key' = Unset
    /\ metadata' = Unset
    /\ forecasts' = Unset
    /\ active_alerts' = Unset
    /\ astronomy' = Unset
    /\ current_weather' = Unset
    /\ tasks' = [n \in 1..Len(TaskNames) |-> [st |-> "new", out |-> Unset]]
    /\ exc' = None
    /\ calls' = << >>
    /\ state_abbrev' = None
    /\ UNCHANGED <<rev, cache>>
    /\ UNCHANGED other_vars

\* lines 63-99 (31-66)
Geocode ==
    /\ pc = "geocode"
    /\ \E g1 \in GeoOutcomes, g2 \in GeoOutcomes :
          LET r == get_location_coordinates(address, g1, g2)
              err == location_error(r, unit)
          IN  /\ calls' = ("geocode" :> geocode_calls(address, g1, g2))
                            @@ ("get_location_coordinates" :> r) @@ calls
              /\ IF IsRaise(r) THEN UNCHANGED <<lat, lon, location>>
                 ELSE /\ lat' = r.v[1]
                      /\ lon' = r.v[2]
                      /\ location' = r.v[3]
              /\ IF err # None THEN
                     /\ response' = err
                     /\ pc' = "done"
                 ELSE
                     /\ UNCHANGED response
                     /\ pc' = IF rev = "core" THEN "cache" ELSE "metadata"
    /\ UNCHANGED <<rev, method, address, show_random_location_message, cache_key,
                   metadata, forecasts, active_alerts, astronomy, current_weather,
                   tasks, exc, cache, unit, state_abbrev>>
    /\ UNCHANGED other_vars

\* lines 101-144
CacheGet ==
    /\ pc = "cache"
    /\ rev = "core"
    /\ LET key == cache_key_of(lat, lon)
           cached_data == IF key \in DOMAIN cache THEN cache[key] ELSE None
       IN  /\ cache_key' = Str(key)
           /\ calls' = ("cache_get" :> cached_data) @@ calls
           /\ IF Truthy(cached_data) THEN
                  /\ response' = cache_hit_response(cached_data)
                  /\ pc' = "done"
              ELSE
                  /\ UNCHANGED response
                  /\ pc' = "metadata"
    /\ UNCHANGED <<rev, method, address, show_random_location_message, lat, lon,
                   location, metadata, forecasts, active_alerts, astronomy,
                   current_weather, tasks, exc, cache, unit, state_abbrev>>
    /\ UNCHANGED other_vars

\* lines 146-163 (69-76)
GetMetadata ==
    /\ pc = "metadata"
    /\ \E resp \in MetadataResponses :
          LET m == get_metadata(resp)
          IN  /\ calls' = ("metadata" :> resp) @@ calls
              /\ IF IsRaise(m) THEN
                     /\ response' = m
                     /\ pc' = "done"
                     /\ UNCHANGED <<metadata, state_abbrev>>
                 ELSE IF ~Truthy(m) THEN
                     /\ metadata' = m
                     /\ response' =
                            Render([error_message |->
                                        Str("Unable to retrieve weather data for this location."),
                                    unit |-> Str(unit)])
                     /\ pc' = "done"
                     /\ UNCHANGED state_abbrev
                 ELSE
                     /\ metadata' = m
                     /\ state_abbrev' =
                            IF rev = "core" THEN state_abbrev_of(location) ELSE state_abbrev
                     /\ pc' = IF rev = "core" THEN "submit" ELSE "m_forecast"
                     /\ UNCHANGED response
    /\ UNCHANGED <<rev, method, address, show_random_location_message, lat, lon,
                   location, cache_key, forecasts, active_alerts, astronomy,
                   current_weather, tasks, exc, cache, unit>>
    /\ UNCHANGED other_vars

\* the least number of a non-empty set
least(S) == CHOOSE n \in S : \A m \in S : n <= m

\* the values the four results are assigned to, in the order of lines 176-179
results_of_tasks == <<forecasts, active_alerts, astronomy, current_weather>>

\* lines 168-173: the next executor.submit.  The call joins the work queue.
Submit ==
    /\ pc = "submit"
    /\ LET n == least({i \in DOMAIN tasks : tasks[i].st = "new"})
       IN  /\ tasks' = [tasks EXCEPT ![n].st = "queued"]
           /\ pc' = IF n = Len(TaskNames) THEN "result" ELSE "submit"
    /\ UNCHANGED <<rev, method, address, show_random_location_message, lat, lon,
                   location, cache_key, metadata, forecasts, active_alerts,
                   astronomy, current_weather, exc, cache, calls, response, unit,
                   state_abbrev>>
    /\ UNCHANGED other_vars

\* a worker thread takes the call at the head of the work queue; the pool has
\* max_workers threads
StartTask(n) ==
    /\ tasks[n].st = "queued"
    /\ \A i \in 1..(n - 1) : tasks[i].st # "queued"
    /\ Cardinality({i \in DOMAIN tasks : tasks[i].st = "running"}) < max_workers
    /\ tasks' = [tasks EXCEPT ![n].st = "running"]
    /\ UNCHANGED <<rev, method, address, show_random_location_message, lat, lon,
                   location, cache_key, metadata, forecasts, active_alerts,
                   astronomy, current_weather, exc, cache, calls, response, unit,
                   state_abbrev, pc>>
    /\ UNCHANGED other_vars

\* what the collaborator of a call of the pool can give
TaskUpstream(n) ==
    CASE TaskNames[n] = "forecast"  -> ForecastResponses
      [] TaskNames[n] = "alerts"    -> AlertsResponses
      [] TaskNames[n] = "astronomy" -> AstronomyInputs
      [] OTHER                      -> CurrentWeatherInputs

\* lines 168-173: the four calls handed to the pool
run_task(n, up) ==
    CASE TaskNames[n] = "forecast"  -> get_forecast(up)
      [] TaskNames[n] = "alerts"    -> get_active_alerts(up)
      [] TaskNames[n] = "astronomy" ->
             get_astronomy_data(up.tz_name, up.sun_data, up.moon_phase, up.phase_at)
      [] OTHER ->
             core_current_weather(up.stations, up.observation, unit, state_abbrev)

\* the call returns or raises in its worker thread; the future keeps either
FinishTask(n) ==
    /\ tasks[n].st = "running"
    /\ \E up \in TaskUpstream(n) :
          /\ tasks' = [tasks EXCEPT ![n] = [st |-> "done", out |-> run_task(n, up)]]
          /\ calls' = (TaskNames[n] :> up) @@ calls
    /\ UNCHANGED <<rev, method, address, show_random_location_message, lat, lon,
                   location, cache_key, metadata, forecasts, active_alerts,
                   astronomy, current_weather, exc, cache, response, unit,
                   state_abbrev, pc>>
    /\ UNCHANGED other_vars

\* lines 176-179: the next future.result(), which waits for its call and
\* returns its value or raises its exception
Result ==
    /\ pc = "result"
    /\ LET n == least({i \in DOMAIN tasks : results_of_tasks[i] = Unset})
           out == tasks[n].out
       IN  /\ tasks[n].st = "done"
           /\ IF IsRaise(out) THEN
                  /\ exc' = out
                  /\ pc' = "exit"
                  /\ UNCHANGED <<forecasts, active_alerts, astronomy, current_weather>>
              ELSE
                  /\ forecasts' = IF n = 1 THEN out ELSE forecasts
                  /\ active_alerts' = IF n = 2 THEN out ELSE active_alerts
                  /\ astronomy' = IF n = 3 THEN out ELSE astronomy
                  /\ current_weather' = IF n = 4 THEN out ELSE current_weather
                  /\ pc' = IF n = Len(TaskNames) THEN "exit" ELSE "result"
                  /\ UNCHANGED exc
    /\ UNCHANGED <<rev, method, address, show_random_location_message, lat, lon,
                   location, cache_key, metadata, tasks, cache, calls, response,
                   unit, state_abbrev>>
    /\ UNCHANGED other_vars

\* the end of the with statement of line 166, and lines 181-253 after it: an
\* exception of the body leaves index once the pool has shut down
ExitExecutor ==
    /\ pc = "exit"
    /\ executor_exit(tasks)
    /\ IF exc # None THEN
           /\ response' = exc
           /\ UNCHANGED <<cache, calls>>
       ELSE \E now \in Clock :
            \E fin \in {index_finish(forecasts, active_alerts, astronomy,
                                     current_weather, now)} :
           /\ response' = fin.response
           /\ cache' = cache_set(cache, cache_key, fin.cache_data)
           /\ calls' = ("now" :> now) @@ ("cache_set" :> fin.cache_data) @@ calls
    /\ pc' = "done"
    /\ UNCHANGED <<rev, method, address, show_random_location_message, lat, lon,
                   location, cache_key, metadata, forecasts, active_alerts,
                   astronomy, current_weather, tasks, exc, unit, state_abbrev>>
    /\ UNCHANGED other_vars

\* the older revision, lines 78-89
MysiteForecast ==
    /\ pc = "m_forecast"
    /\ \E resp \in ForecastResponses :
          LET fc == get_forecast(resp)
              f2 == IF IsRaise(fc) THEN fc
                    ELSE IF unit = "C" THEN convert_forecasts(fc) ELSE fc
          IN  /\ calls' = ("forecast" :> resp) @@ calls
              /\ IF IsRaise(f2) THEN
                     /\ response' = f2
                     /\ pc' = "done"
                     /\ UNCHANGED forecasts
                 ELSE
                     /\ forecasts' = f2
                     /\ pc' = "m_current"
                     /\ UNCHANGED response
    /\ UNCHANGED <<rev, method, address, show_random_location_message, lat, lon,
                   location, cache_key, metadata, active_alerts, astronomy,
                   current_weather, tasks, exc, cache, unit, state_abbrev>>
    /\ UNCHANGED other_vars

\* the older revision, lines 91-92
MysiteCurrentWeather ==
    /\ pc = "m_current"
    /\ \E up \in CurrentWeatherInputs :
          LET cw == mysite_current_weather(up.stations, up.observation, unit)
          IN  /\ calls' = ("current_weather" :> up) @@ calls
              /\ IF IsRaise(cw) THEN
                     /\ response' = cw
                     /\ pc' = "done"
                     /\ UNCHANGED current_weather
                 ELSE
                     /\ current_weather' = cw
                     /\ pc' = "m_astronomy"
                     /\ UNCHANGED response
    /\ UNCHANGED <<rev, method, address, show_random_location_message, lat, lon,
                   location, cache_key, metadata, forecasts, active_alerts,
                   astronomy, tasks, exc, cache, unit, state_abbrev>>
    /\ UNCHANGED other_vars

\* the older revision, lines 94-105
MysiteAstronomy ==
    /\ pc = "m_astronomy"
    /\ \E up \in AstronomyInputs, now \in Clock :
          LET astro == get_astronomy_data(up.tz_name, up.sun_data, up.moon_phase,
                                          up.phase_at)
          IN  IF IsRaise(astro) THEN
                  /\ calls' = ("astronomy" :> up) @@ calls
                  /\ response' = astro
                  /\ pc' = "done"
                  /\ UNCHANGED <<astronomy, current_weather>>
              ELSE
                  /\ calls' = ("astronomy" :> up) @@ ("now" :> now) @@ calls
                  /\ astronomy' = astro
                  /\ current_weather' =
                         dict_set(dict_update(current_weather, astro), "is_night",
                                  is_night_of(astro, now))
                  /\ pc' = "m_alerts"
                  /\ UNCHANGED response
    /\ UNCHANGED <<rev, method, address, show_random_location_message, lat, lon,
                   location, cache_key, metadata, forecasts, active_alerts, tasks,
                   exc, cache, unit, state_abbrev>>
    /\ UNCHANGED other_vars

\* the older revision, lines 107-121
MysiteAlerts ==
    /\ pc = "m_alerts"
    /\ \E resp \in AlertsResponses :
          LET alerts == get_active_alerts(resp)
          IN  /\ calls' = ("alerts" :> resp) @@ calls
              /\ IF IsRaise(alerts) THEN
                     /\ response' = alerts
                     /\ UNCHANGED <<active_alerts, current_weather>>
                 ELSE
                     /\ active_alerts' = alerts
                     /\ current_weather' = dict_set(current_weather, "active_alerts", alerts)
                     /\ response' =
                            mysite_weather_page(forecasts,
                                dict_set(current_weather, "active_alerts", alerts), alerts)
    /\ pc' = "done"
    /\ UNCHANGED <<rev, method, address, show_random_location_message, lat, lon,
                   location, cache_key, metadata, forecasts, astronomy, tasks, exc,
                   cache, unit, state_abbrev>>
    /\ UNCHANGED other_vars

NextIndex ==
    \/ ReceiveRequest
    \/ Geocode
    \/ CacheGet
    \/ GetMetadata
    \/ Submit
    \/ \E n \in 1..Len(TaskNames) : StartTask(n)
    \/ \E n \in 1..Len(TaskNames) : FinishTask(n)
    \/ Result
    \/ ExitExecutor
    \/ MysiteForecast
    \/ MysiteCurrentWeather
    \/ MysiteAstronomy
    \/ MysiteAlerts

SpecIndex == InitIndex /\ [][NextIndex]_vars

\* the calls of the pool that have been submitted, and those that have
\* returned or raised
Dispatched == {n \in DOMAIN tasks : tasks[n].st # "new"}
Completed == {n \in DOMAIN tasks : tasks[n].st = "done"}

\* a result() of lines 176-179 has returned or raised
ResultConsumed ==
    \/ \E n \in DOMAIN tasks : results_of_tasks[n] # Unset
    \/ exc # None

\* the with statement has been left
PastJoin == pc = "done" /\ Dispatched # {}

(***************************************************************************)
(* C14.  In index of core/views.py the four calls (forecast, alerts,       *)
(* astronomy, current weather) are all submitted before any result is      *)
(* consumed, and nothing after the with statement (unit conversion, merge  *)
(* of the astronomy data, is_night, cache write, render) executes until    *)
(* all four calls have returned or raised.                                 *)
(***************************************************************************)
C14_DispatchThenJoin ==
    rev = "core" =>
        /\ ResultConsumed => Dispatched = DOMAIN tasks
        /\ PastJoin => Completed = DOMAIN tasks
        /\ (DOMAIN calls \cap {"now", "cache_set"} # {}) => Completed = DOMAIN tasks
        /\ (response # Unset /\ Dispatched # {}) => Completed = DOMAIN tasks

\* the forecast request failed; its exception left the with statement only
\* after the three other calls had finished
C14_Witness ==
    /\ rev = "core"
    /\ PastJoin
    /\ exc = RequestFailure
    /\ forecasts = Unset
    /\ Completed = DOMAIN tasks
    /\ response = RequestFailure

\* the four fetches after the geocoding
Fetches == {"forecast", "alerts", "astronomy", "current_weather"}

\* what the collaborator of a fetch gave is a failure of the collaborator: a
\* failed request, or no timezone for the coordinates
UpstreamFailed(k) ==
    CASE k = "astronomy" -> calls[k].tz_name = None
      [] k = "current_weather" ->
             \/ calls[k].stations = RequestFailure
             \/ /\ calls[k].stations # List(<< >>)
                /\ calls[k].observation = RequestFailure
      [] OTHER -> calls[k] = RequestFailure

FailedFetches == {k \in Fetches \cap DOMAIN calls : UpstreamFailed(k)}

\* index returned a page: a render whose context has the weather data
IsWeatherPage(r) == r.t = "render" /\ "forecasts" \in DOMAIN r.context

(***************************************************************************)
(* C15.  If one of the four fetches after the geocoding (forecast, alerts, *)
(* astronomy, current observations) fails with a failure of its            *)
(* collaborator, index still completes the request and renders a page, on  *)
(* which the results of the other fetches are shown; the failure never     *)
(* ends the request with an exception.                                     *)
(* Fails: no fetch is guarded, so the exception of a fetch leaves index.   *)
(***************************************************************************)
C15_FetchFailureNotFatal ==
    (pc = "done" /\ Cardinality(FailedFetches) = 1) =>
        /\ ~IsRaise(response)
        /\ IsWeatherPage(response)

\* what holds: the exception of a failed fetch is what comes out of index
C15_FetchFailureIsFatal ==
    (pc = "done" /\ FailedFetches # {}) => IsRaise(response)

\* what get_location_coordinates returned or raised for the request
Resolution == calls["get_location_coordinates"]

\* the upper-cased country code of a resolved location, "" without one
CountryCodeOf(loc) ==
    IF "country_code" \in DOMAIN loc.raw.d["address"].d
    THEN upper(loc.raw.d["address"].d["country_code"].s)
    ELSE ""

\* the resolution failed, or gave a location with a country code other than US
LocationUnresolved ==
    /\ "get_location_coordinates" \in DOMAIN calls
    /\ \/ IsRaise(Resolution)
       \/ Resolution.v[3] = None
       \/ /\ Resolution.v[3] # None
          /\ CountryCodeOf(Resolution.v[3]) \notin {"", "US"}

\* a fetch after the geocoding, or a cache read or write, has been made
FetchOrCacheUse ==
    \/ DOMAIN calls \cap (Fetches \cup {"metadata", "cache_get", "cache_set"}) # {}
    \/ Dispatched # {}

IsErrorPage(r) == r.t = "render" /\ "error_message" \in DOMAIN r.context

(***************************************************************************)
(* C16.  In index, if the location resolution fails (not found, geocoder   *)
(* error) or gives a country code other than US, the request ends with an  *)
(* error response for the user, and no metadata, forecast, alerts,         *)
(* astronomy or observation fetch and no cache read or write is made for   *)
(* it; these happen only after a location has been resolved.               *)
(***************************************************************************)
C16_NoFetchForUnresolvedLocation ==
    /\ LocationUnresolved =>
           /\ pc = "done"
           /\ IsErrorPage(response)
           /\ "error_type" \in DOMAIN response.context
           /\ ~FetchOrCacheUse
    /\ FetchOrCacheUse =>
           /\ "get_location_coordinates" \in DOMAIN calls
           /\ ~LocationUnresolved
           /\ location = Resolution.v[3]

\* Toronto: the city path resolves it, and index answers with the
\* "international" page
C16_Witness ==
    /\ LocationUnresolved
    /\ pc = "done"
    /\ Resolution = Tuple(<<LocToronto.latitude, LocToronto.longitude, LocToronto>>)
    /\ response.context["error_type"] = Str("international")
    /\ ~FetchOrCacheUse

\* a resolution that failed outright
C16_WitnessNotFound ==
    /\ LocationUnresolved
    /\ pc = "done"
    /\ Resolution = NoLocation
    /\ response.context["error_type"] = Str("not_found")

\* a geocode call of the request timed out or found the service unavailable
GeocoderTimeouts == {Raise("GeocoderTimedOut"), Raise("GeocoderUnavailable")}

GeocoderTimedOut ==
    /\ "geocode" \in DOMAIN calls
    /\ \E i \in 1..Len(calls["geocode"]) : calls["geocode"][i] \in GeocoderTimeouts

\* the input of the request took the ZIP path
ZipInput == IsStr(address) /\ zip_pattern(strip(address.s))

ErrorTypeOf(r) ==
    IF r.t = "render" /\ "error_type" \in DOMAIN r.context
    THEN r.context["error_type"] ELSE None

(***************************************************************************)
(* C17.  A geocoder timeout or service-unavailable failure during the      *)
(* location resolution, for a ZIP input as for a city input, gives the     *)
(* "try again" response (error_type "timeout"), which differs from the     *)
(* responses for a location not found ("not_found"), a location outside    *)
(* the USA ("international") and the generic failure ("general"); the      *)
(* request does not end with an exception.                                 *)
(* Fails: get_location_coordinates never lets a geocoder exception out.    *)
(***************************************************************************)
C17_GeocoderTimeoutTryAgain ==
    GeocoderTimedOut =>
        /\ pc = "done"
        /\ ~IsRaise(response)
        /\ ErrorTypeOf(response) = Str("timeout")

\* what holds: the timeout gives the "not_found" page on the ZIP path and the
\* "general" page on the city path, and no request gets the "timeout" page
C17_GeocoderTimeoutAsCoded ==
    /\ GeocoderTimedOut =>
           /\ pc = "done"
           /\ ErrorTypeOf(response) = IF ZipInput THEN Str("not_found") ELSE Str("general")
    /\ ErrorTypeOf(response) # Str("timeout")

\* the timezone of the coordinates was not found
TimezoneUnresolved ==
    "astronomy" \in DOMAIN calls /\ calls["astronomy"].tz_name = None

\* the current local time is before sunrise or after sunset
NightAt(now, sun_data) ==
    \/ now.p * sun_data.d["sunrise"].q < sun_data.d["sunrise"].p * now.q
    \/ sun_data.d["sunset"].p * now.q < now.p * sun_data.d["sunset"].q

\* is_night on the rendered page
IsNightOf(r) == r.context["current"].d["is_night"]

(***************************************************************************)
(* C18.  When the timezone of the coordinates cannot be resolved, index    *)
(* falls back to is_night = False and no exception comes out of the        *)
(* request; otherwise is_night is true exactly when the current local time *)
(* is before sunrise or after sunset.                                      *)
(* Fails: get_astronomy_data raises before index reaches its fallback.     *)
(***************************************************************************)
C18_TimezoneFallback ==
    /\ (pc = "done" /\ TimezoneUnresolved) =>
           /\ response # Raise("UnknownTimeZoneError")
           /\ IsWeatherPage(response) => IsNightOf(response) = Bool(FALSE)
    /\ (pc = "done" /\ IsWeatherPage(response) /\ ~TimezoneUnresolved) =>
           IsNightOf(response) = Bool(NightAt(calls["now"], calls["astronomy"].sun_data))

\* what holds: with the timezone resolved, is_night on the page is as claimed
\* (the older revision; the newer one renders no page, see C1)
C18_IsNightWithTimezone ==
    (pc = "done" /\ IsWeatherPage(response)) =>
        /\ ~TimezoneUnresolved
        /\ IsNightOf(response) = Bool(NightAt(calls["now"], calls["astronomy"].sun_data))

\* what holds: without a timezone no page is rendered
C18_NoTimezoneNoPage ==
    (pc = "done" /\ TimezoneUnresolved) => IsRaise(response)

\* night and day are both rendered
C18_NightRendered ==
    /\ pc = "done"
    /\ IsWeatherPage(response)
    /\ IsNightOf(response) = Bool(TRUE)
    /\ calls["now"] = Num(1200)

C18_DayRendered ==
    /\ pc = "done"
    /\ IsWeatherPage(response)
    /\ IsNightOf(response) = Bool(FALSE)
    /\ calls["now"] = Num(720)

\* the value is a number, or a string float() parses to a finite number
ParsesToNumber(v) ==
    \/ IsNum(v)
    \/ IsStr(v) /\ IsNum(parse_float(v.s))

\* the value is a string float() accepts
ParsesAsFloat(v) == IsStr(v) /\ ~IsRaise(parse_float(v.s))

NumberOf(v) == IF IsNum(v) THEN v ELSE parse_float(v.s)

(***************************************************************************)
(* C19.  convert_temperature never raises, for any value and pair of       *)
(* units: with differing units a value that cannot be parsed as a number   *)
(* returns "N/A", and a number or numeric string t returns                 *)
(* round((t-32)*5/9) for F->C and round(t*9/5+32) for C->F.                *)
(* Fails for the strings float() accepts that are no finite number: "nan"  *)
(* passes float() and round() raises on it.                                *)
(***************************************************************************)
C19_ConvertTemperatureNeverRaises ==
    Returned("convert_temperature") =>
        /\ ~IsRaise(ret)
        /\ (args[2] # args[3] /\ ~IsNone(args[1]) /\ ~ParsesToNumber(args[1])) => ret = NA
        /\ (args[2] # args[3] /\ ParsesToNumber(args[1])) =>
               ret = IF args[2] = "F"
                     THEN py_round(f_minus_32_times_5_9(NumberOf(args[1])))
                     ELSE py_round(c_times_9_5_plus_32(NumberOf(args[1])))

\* what holds: the same for every value but the strings float() parses to
\* nan or an infinity, on which round() raises
C19_ConvertTemperatureFinite ==
    Returned("convert_temperature") =>
        /\ IsRaise(ret) <=>
               (args[2] # args[3] /\ ParsesAsFloat(args[1]) /\ ~ParsesToNumber(args[1]))
        /\ (args[2] # args[3] /\ ~IsNone(args[1]) /\ ~ParsesToNumber(args[1])
                /\ ~ParsesAsFloat(args[1])) => ret = NA
        /\ (args[2] # args[3] /\ ParsesToNumber(args[1])) =>
               ret = IF args[2] = "F"
                     THEN py_round(f_minus_32_times_5_9(NumberOf(args[1])))
                     ELSE py_round(c_times_9_5_plus_32(NumberOf(args[1])))

C19_NanRaises ==
    /\ Returned("convert_temperature")
    /\ args = <<Str("nan"), "F", "C">>
    /\ ret = Raise("ValueError")

\* the request got an answer from each of the four fetches
AllFetched == Fetches \subseteq DOMAIN calls /\ FailedFetches = {}

\* the forecast periods as the provider gave them for the request, in
\* Fahrenheit
UpstreamPeriods == get_forecast(calls["forecast"])

\* lines 297-414 run for unit u on the station and the observation the
\* request got
BodyCurrentWeather(u) ==
    current_weather_of(get_nearest_station(calls["current_weather"].stations.v).v[1],
                       station_display_of(
                           get_nearest_station(calls["current_weather"].stations.v).v[2],
                           state_abbrev),
                       calls["current_weather"].observation, u)

HasObservation ==
    /\ "current_weather" \in DOMAIN calls
    /\ calls["current_weather"].stations \notin {RequestFailure, List(<< >>)}
    /\ calls["current_weather"].observation # RequestFailure

\* a cache entry of the request holds the forecast and the current
\* temperature in Fahrenheit
EntryInFahrenheit(e) ==
    /\ e.d["forecasts"] = UpstreamPeriods
    /\ \A i \in 1..Len(e.d["forecasts"].v) :
           e.d["forecasts"].v[i].d["temperatureUnit"] = Str("F")
    /\ HasObservation => e.d["current"].d["temp"] = BodyCurrentWeather("F").d["temp"]

(***************************************************************************)
(* C20.  After any sequence of requests with units F and C, the entry      *)
(* index stores in the cache for a coordinate key holds the forecast       *)
(* temperatures and the current temperature in Fahrenheit (temperatureUnit *)
(* 'F'), whatever the unit of the request that stored it: a request that   *)
(* got its data leaves such an entry under its key.                        *)
(* Fails: no request ever stores an entry (the unpack of C1), and lines    *)
(* 181-238 would store the values in the unit of the request.              *)
(***************************************************************************)
C20_CacheHoldsFahrenheit ==
    (rev = "core" /\ pc = "done" /\ AllFetched) =>
        /\ cache_key.s \in DOMAIN cache
        /\ EntryInFahrenheit(cache[cache_key.s])

\* what holds: the cache stays empty
C20_CacheStaysEmpty == cache = << >>

\* the three first results are in and the current-weather call has an
\* observation: what lines 181-238 hand to cache.set when they are run on the
\* record of lines 297-414
BodyReady ==
    /\ rev = "core"
    /\ pc = "exit"
    /\ forecasts # Unset /\ active_alerts # Unset /\ astronomy # Unset
    /\ HasObservation

BodyCacheData(now) ==
    index_finish(forecasts, active_alerts, astronomy, BodyCurrentWeather(unit), now).cache_data

\* C20's own defect, apart from C1's: lines 181-238 store the entry in
\* Fahrenheit (violated for a request in Celsius)
C20_BodyCacheFahrenheit ==
    BodyReady => \A now \in Clock : EntryInFahrenheit(BodyCacheData(now))

\* what holds of lines 181-238: the entry is in the unit of the request, and
\* a later cache hit for Celsius converts an entry stored by a Celsius
\* request once more
C20_BodyCacheRequestUnit ==
    BodyReady => \A now \in Clock :
        /\ BodyCacheData(now).d["forecasts"] =
               (IF unit = "C" THEN convert_forecasts(UpstreamPeriods) ELSE UpstreamPeriods)
        /\ BodyCacheData(now).d["current"].d["temp"] = BodyCurrentWeather(unit).d["temp"]
        /\ unit = "C" =>
               cache_hit_response(BodyCacheData(now)).context["forecasts"] =
                   convert_forecasts(convert_forecasts(UpstreamPeriods))

\* 68 F is stored as 20 by a Celsius request; a Celsius cache hit would render
\* it as -7
C20_BodyCelsiusStored ==
    /\ BodyReady
    /\ unit = "C"
    /\ Len(UpstreamPeriods.v) = 2
    /\ BodyCacheData(Num(720)).d["forecasts"].v[1].d["temperature"] = Num(20)
    /\ cache_hit_response(BodyCacheData(Num(720))).context["forecasts"].v[1].d["temperature"]
           = Num(-7)

\* the temperature fields of the current weather
TemperatureKeys == {"temp", "heat_index", "wind_chill", "max_temp_24h", "min_temp_24h"}

\* the temperatures on a rendered page: the forecast periods with their
\* units, and the temperature fields of the current weather
RenderedTemperatures(r) ==
    [forecasts |-> r.context["forecasts"],
     current |-> [k \in TemperatureKeys |-> r.context["current"].d[k]]]

\* what lines 181-238 hand to cache.set when they are run for a request of
\* unit f on the data of the request
BodyCacheDataFor(f, now) ==
    index_converted(IF f = "C" THEN convert_forecasts(forecasts) ELSE forecasts,
                    active_alerts, astronomy, BodyCurrentWeather(f), now).cache_data

\* the page lines 181-253 render for the unit of the request on a cache miss
BodyMissPage(now) ==
    index_finish(forecasts, active_alerts, astronomy, BodyCurrentWeather(unit), now).response

(***************************************************************************)
(* C21.  For fixed upstream data, a request for unit u served from the     *)
(* cache renders the same temperatures (forecast temperatures and units,   *)
(* current temp, heat index, wind chill, 24h max and min) as a request for *)
(* unit u served by a cache miss, whatever the unit of the request that    *)
(* filled the cache: a request that got its data renders a page and leaves *)
(* an entry from which a request for the same unit renders the same.       *)
(* Fails: no request renders a page or fills the cache (the unpack of C1), *)
(* and lines 105-129 would not undo the unit of the entry.                 *)
(***************************************************************************)
C21_CacheHitRendersAsMiss ==
    (rev = "core" /\ pc = "done" /\ AllFetched /\ HasObservation) =>
        /\ IsWeatherPage(response)
        /\ cache_key.s \in DOMAIN cache
        /\ RenderedTemperatures(cache_hit_response(cache[cache_key.s]))
               = RenderedTemperatures(response)

\* what holds: no request is served from the cache, and none renders a page
\* on a cache miss
C21_NoCacheHit ==
    rev = "core" =>
        /\ ("cache_get" \in DOMAIN calls => calls["cache_get"] = None)
        /\ ~IsWeatherPage(response)

\* C21's own defect, apart from C1's: lines 105-144 run on the entry that
\* lines 181-238 store for a request of unit f render, for the unit of the
\* request, what lines 181-253 render (violated for every pair of units but
\* F and F)
C21_BodyHitRendersAsMiss ==
    BodyReady => \A f \in Units, now \in Clock :
        RenderedTemperatures(cache_hit_response(BodyCacheDataFor(f, now)))
            = RenderedTemperatures(BodyMissPage(now))

\* what holds of these lines: the two pages agree when the entry was stored
\* by a request for Fahrenheit and is read for Fahrenheit; an entry stored for
\* Fahrenheit and read for Celsius has its forecast and current temperature
\* converted and the four other fields left in Fahrenheit; an entry stored
\* for Celsius is rendered unchanged for Fahrenheit and converted once more
\* for Celsius
C21_BodyHitAsCoded ==
    BodyReady => \A now \in Clock :
        LET hitF == RenderedTemperatures(cache_hit_response(BodyCacheDataFor("F", now)))
            hitC == RenderedTemperatures(cache_hit_response(BodyCacheDataFor("C", now)))
            miss == RenderedTemperatures(BodyMissPage(now))
            F == BodyCurrentWeather("F").d
            C == BodyCurrentWeather("C").d
        IN  /\ unit = "F" =>
                /\ hitF = miss
                /\ hitC.forecasts = convert_forecasts(UpstreamPeriods)
                /\ hitC.current = [k \in TemperatureKeys |-> C[k]]
            /\ unit = "C" =>
                /\ hitF.forecasts = miss.forecasts
                /\ hitF.current["temp"] = miss.current["temp"]
                /\ \A k \in TemperatureKeys \ {"temp"} : hitF.current[k] = F[k]
                /\ hitC.forecasts = convert_forecasts(convert_forecasts(UpstreamPeriods))
                /\ hitC.current["temp"] = convert_temperature(C["temp"], "F", "C")

\* an entry stored for Fahrenheit and read for Celsius: the heat index of
\* 25 C is rendered as 77, where the cache miss renders 25
C21_BodyHeatIndexLeft ==
    /\ BodyReady
    /\ unit = "C"
    /\ RenderedTemperatures(cache_hit_response(BodyCacheDataFor("F", Num(720))))
           .current["heat_index"] = Num(77)
    /\ RenderedTemperatures(BodyMissPage(Num(720))).current["heat_index"] = Num(25)

\* the unit code of the raw wind speed, Missing when there is none
WindUnitCode == dict_get(RawOf("windSpeed"), "unitCode", Missing)

\* the raw wind speed is missing, or its unit code is none the conversion
\* knows
WindMissingOrUnknown ==
    \/ ValueOf("windSpeed") = Missing
    \/ IsNone(ValueOf("windSpeed"))
    \/ WindUnitCode = Missing
    \/ /\ IsStr(WindUnitCode)
       /\ ~Contains(WindUnitCode.s, "m_s")
       /\ ~Contains(WindUnitCode.s, "km_h")

\* the claim on a record r
WindTogether(r) ==
    /\ r.d["wind_label"] = Str("mph") <=> IsNum(r.d["wind_speed_mph"])
    /\ r.d["wind_label"] \in {None, Str("mph")}
    /\ IsNone(r.d["wind_speed_mph"]) \/ IsNum(r.d["wind_speed_mph"])
    /\ (~HasStation \/ (IsDict(RawOf("windSpeed")) /\ WindMissingOrUnknown)) =>
           IsNone(r.d["wind_speed_mph"]) /\ IsNone(r.d["wind_label"])

\* what the code does on a record r: the same, but for a speed that rounds to
\* 0 mph, which comes with the label "mph" and no wind_speed_mph
WindTogetherButZero(r) ==
    /\ IsNum(r.d["wind_speed_mph"]) => r.d["wind_label"] = Str("mph")
    /\ r.d["wind_label"] = Str("mph") =>
           \/ IsNum(r.d["wind_speed_mph"])
           \/ /\ IsNone(r.d["wind_speed_mph"])
              /\ wind_of(obs) = Tuple(<<Num(0), Str("mph")>>)
    /\ r.d["wind_label"] \in {None, Str("mph")}
    /\ IsNone(r.d["wind_speed_mph"]) \/ (IsNum(r.d["wind_speed_mph"]) /\ r.d["wind_speed_mph"] # Num(0))
    /\ (~HasStation \/ (IsDict(RawOf("windSpeed")) /\ WindMissingOrUnknown)) =>
           IsNone(r.d["wind_speed_mph"]) /\ IsNone(r.d["wind_label"])

(***************************************************************************)
(* C22.  In every record get_current_weather returns, wind_speed_mph and   *)
(* wind_label are present or absent together: wind_label is "mph" exactly  *)
(* when wind_speed_mph is a number, and both are absent when the raw wind  *)
(* speed is missing or its unit code is unknown.                           *)
(* Fails for a speed that rounds to 0 mph: the label is "mph" and          *)
(* wind_speed_mph is absent.                                               *)
(***************************************************************************)
C22_WindSpeedAndLabelTogether ==
    (pc # "start" /\ IsDict(result)) => WindTogether(result)

\* what holds of the records returned
C22_WindTogetherButZero ==
    (pc # "start" /\ IsDict(result)) => WindTogetherButZero(result)

\* C22 of lines 297-414 run on a station (the newer revision returns no
\* record, see C1): violated by the same case
C22_BodyWindTogether ==
    (pc = "core" /\ HasStation /\ OthersClean({"windSpeed"})
       /\ IsDict(current_weather_of(StationId, StationId, obs, unit))) =>
        WindTogether(current_weather_of(StationId, StationId, obs, unit))

C22_BodyWindTogetherButZero ==
    (pc = "core" /\ HasStation /\ OthersClean({"windSpeed"})
       /\ IsDict(current_weather_of(StationId, StationId, obs, unit))) =>
        WindTogetherButZero(current_weather_of(StationId, StationId, obs, unit))

\* calm air reported in km/h by the older revision: the label without the speed
C22_CalmLabelOnly ==
    /\ pc = "mysite"
    /\ IsDict(result)
    /\ ValueOf("windSpeed") = Num(0)
    /\ WindUnitCode = Str("wmoUnit:km_h-1")
    /\ result.d["wind_label"] = Str("mph")
    /\ IsNone(result.d["wind_speed_mph"])

\* a wind of 10 km/h: 6 mph with its label
C22_SpeedWithLabel ==
    /\ pc = "mysite"
    /\ IsDict(result)
    /\ ValueOf("windSpeed") = Num(10)
    /\ WindUnitCode = Str("wmoUnit:km_h-1")
    /\ result.d["wind_speed_mph"] = Num(6)
    /\ result.d["wind_label"] = Str("mph")

====
